---- MODULE Spec2Model ----
(***************************************************************************)
(* Einstein-Field-Equations backend: the numeric tensor engine             *)
(* (app/physics/tensors.py), the three metric endpoints (app/main.py) and  *)
(* the request path in front of them (pydantic validation, the             *)
(* cache_response decorator of app/core/cache.py).                         *)
(*                                                                         *)
(* Floating-point values are modelled as exact rationals [n, d] in lowest  *)
(* terms.  The inputs are integers and the angles are ones whose sine and  *)
(* cosine are rational, so every value the code computes is a rational;    *)
(* the rounding error of the float computation (relative 1e-16) is far     *)
(* below the 1e-10 tolerance the code and its tests compare against.       *)
(* Inputs at which rounding would decide a branch (an exact zero that the  *)
(* float computation misses) are left out of the input sets, see           *)
(* FloatExact.                                                             *)
(*                                                                         *)
(* Spec runs the bodies of the endpoints statement by statement, as a      *)
(* caller holding a validated model would; SpecHttp is the path of an HTTP *)
(* request through validation and the wrapper of cache_response.           *)
(***************************************************************************)
EXTENDS Integers, Sequences, FiniteSets, TLC

VARIABLES
    call,          \* the endpoint call in progress: [endpoint, input], or NoCall
    stage,         \* position inside the body, see Stages
    metric,        \* the metric dict the body built, or None
    horizons,      \* [event_horizon, cauchy_horizon] the body computed, or None
    frame,         \* locals of calculate_christoffel_symbols before its loops, or None
    christoffel,   \* the dict calculate_christoffel_symbols returned
    riemann,       \* the dict calculate_riemann_tensor returned
    ricci,         \* the dict calculate_ricci_tensor returned
    ricci_scalar,  \* the value calculate_ricci_scalar returned, or None
    caught,        \* the exception the body's except clause caught, or None
    response,      \* what the endpoint body returned, or NoResponse
    calls,         \* the tensor functions the body invoked, in order
    http_pc,       \* position of the HTTP request: "idle", "validate", "wrapper", "responded"
    http_req,      \* the HTTP request in progress: [endpoint, input], or NoCall
    http_resp,     \* the HTTP response, or NoResponse
    cache_ops,     \* the Redis operations issued for the request, in order
    served,        \* number of calls and requests completed so far
    log,           \* what a client has observed: the completed calls and requests
    login_attempts,\* _login_attempts: per client IP the dict [id, count, reset_at]
    now,           \* the clock time.time() reads
    workers,       \* per threadpool worker: its position in an auth request and its locals
    admitted,      \* per client IP: the calls that returned True since the dict was replaced
    logins,        \* number of auth requests started so far
    token_cache,   \* the lru_cache of _create_token_cached: (subject, seconds) -> token
    users,         \* the users table: per user id its row, or NoRow
    user_cache,    \* _user_cache: per user id [user, timestamp], or NoEntry
    answer,        \* what the last auth or calculation operation returned or raised
    wrapped,       \* one call of a cache_response wrapper: its position and locals
    redis,         \* the keys redis holds, with their values
    calculations   \* the calculations table: per id its row, or NoRow

vars == <<call, stage, metric, horizons, frame, christoffel, riemann, ricci, ricci_scalar,
          caught, response, calls, http_pc, http_req, http_resp, cache_ops, served, log,
          login_attempts, now, workers, admitted, logins,
          token_cache, users, user_cache, answer, wrapped, redis, calculations>>

tokenVars == <<token_cache>>
userVars == <<users, user_cache>>
wrapperVars == <<wrapped, redis>>
calculationVars == <<calculations>>
serviceVars == <<tokenVars, userVars, answer, wrapperVars, calculationVars>>
authVars == <<login_attempts, now, workers, admitted, logins, serviceVars>>

----------------------------------------------------------------------------
(* Bounds of the model *)

MaxRadius == 10
MaxServed == 2
MaxLogins == 6
MaxTicks == 3

----------------------------------------------------------------------------
(* Rational arithmetic standing for float arithmetic *)

Abs(i) == IF i < 0 THEN -i ELSE i

RECURSIVE Gcd(_, _)
Gcd(a, b) == IF b = 0 THEN a ELSE Gcd(b, a % b)

Rat(n, d) ==
    LET g == Gcd(Abs(n), Abs(d))
        s == IF d < 0 THEN -1 ELSE 1
    IN  [n |-> s * (n \div g), d |-> s * (d \div g)]

Int2Rat(i) == [n |-> i, d |-> 1]
Zero == Int2Rat(0)
One == Int2Rat(1)

\* every operation takes proper rationals (positive denominators); an inf
\* reaching an operation is outside the model
RNeg(x) == CASE x.d > 0 -> [n |-> -x.n, d |-> x.d]

RAdd(x, y) ==
    CASE x.d > 0 /\ y.d > 0 ->
        LET g == Gcd(x.d, y.d)
        IN  Rat(x.n * (y.d \div g) + y.n * (x.d \div g), (x.d \div g) * y.d)

RSub(x, y) ==
    CASE x.d > 0 /\ y.d > 0 ->
        LET g == Gcd(x.d, y.d)
        IN  Rat(x.n * (y.d \div g) - y.n * (x.d \div g), (x.d \div g) * y.d)

RMul(x, y) ==
    CASE x.d > 0 /\ y.d > 0 ->
        LET g1 == Gcd(Abs(x.n), y.d)
            g2 == Gcd(Abs(y.n), x.d)
        IN  IF x.n = 0 \/ y.n = 0 THEN Zero
            ELSE [n |-> (x.n \div g1) * (y.n \div g2), d |-> (x.d \div g2) * (y.d \div g1)]

\* x / y for y # 0; the callers test for a zero divisor first, as the
\* ZeroDivisionError of the code does
RDiv(x, y) ==
    CASE x.d > 0 /\ y.d > 0 /\ y.n # 0 ->
        LET s == IF y.n < 0 THEN -1 ELSE 1
            g1 == Gcd(Abs(x.n), Abs(y.n))
            g2 == Gcd(y.d, x.d)
        IN  IF x.n = 0 THEN Zero
            ELSE [n |-> s * (x.n \div g1) * (y.d \div g2),
                  d |-> (x.d \div g2) * (Abs(y.n) \div g1)]

RLt(x, y) == x.n * y.d < y.n * x.d
RLe(x, y) == x.n * y.d <= y.n * x.d
RIsZero(x) == x.n = 0

\* x**2, x**3, x**4 of a rational in lowest terms
RSq(x) == CASE x.d > 0 -> [n |-> x.n * x.n, d |-> x.d * x.d]
RCube(x) == CASE x.d > 0 -> [n |-> x.n * x.n * x.n, d |-> x.d * x.d * x.d]
RPow4(x) == CASE x.d > 0 -> [n |-> x.n * x.n * x.n * x.n, d |-> x.d * x.d * x.d * x.d]

\* k * x for an integer k
RScale(k, x) ==
    CASE x.d > 0 ->
        LET g == Gcd(Abs(k), x.d)
        IN  [n |-> (k \div g) * x.n, d |-> x.d \div g]

\* Python's bool used as a number: x * (alpha == 1)
BoolMul(x, b) == IF b THEN x ELSE Zero

\* the sum terms[lo] + ... + terms[hi]; the code adds left to right, the
\* exact sum does not depend on the association
RECURSIVE SumRange(_, _, _)
SumRange(terms, lo, hi) ==
    IF lo = hi THEN terms[lo]
    ELSE LET mid == (lo + hi) \div 2
         IN  RAdd(SumRange(terms, lo, mid), SumRange(terms, mid + 1, hi))

\* The tolerance 1e-10 is 1 / TolRoot^2
TolRoot == 100000

\* x > 1e-10 without the abs: negative components fail the test
AboveTolSigned(x) ==
    /\ x.n > 0
    /\ ((x.d \div x.n) \div TolRoot) < TolRoot

\* abs(x) > 1e-10, computed as d/|n| < 1e10 by two integer divisions
AboveTol(x) ==
    /\ x.n # 0
    /\ ((x.d \div Abs(x.n)) \div TolRoot) < TolRoot

\* abs(x) < 1e-10
WithinTol(x) ==
    \/ x.n = 0
    \/ LET q == x.d \div Abs(x.n)
       IN  \/ (q \div TolRoot) > TolRoot
           \/ (q \div TolRoot) = TolRoot /\ (q % TolRoot # 0 \/ x.d % Abs(x.n) # 0)

\* exact square root of a perfect square, the value np.sqrt returns for it
RECURSIVE ISqrtFrom(_, _)
ISqrtFrom(n, k) == IF k * k >= n THEN k ELSE ISqrtFrom(n, k + 1)
ISqrt(n) == ISqrtFrom(n, 0)
IsSquare(n) == n >= 0 /\ ISqrt(n) * ISqrt(n) = n

----------------------------------------------------------------------------
(* Angles: np.sin, np.cos and the float value of the angles the model uses *)

Thetas == {"-1", "0", "asin(3/5)", "pi/2", "2pi"}

\* the float value, to four decimals (only its order against 0 and np.pi matters)
ThetaValue(theta) ==
    CASE theta = "-1" -> Rat(-1, 1)
      [] theta = "0" -> Zero
      [] theta = "asin(3/5)" -> Rat(6435, 10000)
      [] theta = "pi/2" -> Rat(15708, 10000)
      [] theta = "2pi" -> Rat(62832, 10000)

Pi == Rat(31416, 10000)

\* np.sin(theta)
Sin(theta) ==
    CASE theta = "0" -> Zero
      [] theta = "asin(3/5)" -> Rat(3, 5)
      [] theta = "pi/2" -> One

\* np.cos(theta); np.cos(pi/2) is 6.1e-17 in floats: every value the code
\* derives from it stays below the 1e-10 tolerance or is absorbed in a sum
Cos(theta) ==
    CASE theta = "0" -> One
      [] theta = "asin(3/5)" -> Rat(4, 5)
      [] theta = "pi/2" -> Zero

----------------------------------------------------------------------------
(* Request bodies *)

Masses == {-1, 0, 1, 2, 5}
Radii == 0 .. MaxRadius
Spins == {-1, 0, 1, 2, 3, 4, 5, 6}

Endpoints == {"schwarzschild", "kerr", "reissner-nordstrom"}

NoCall == [endpoint |-> "none"]
NoResponse == [status |-> 0]

\* JSON bodies a client can post
MetricInputs == [mass : Masses, radius : Radii, theta : Thetas]
KerrInputs == [mass : Masses, radius : Radii, theta : Thetas, angular_momentum : Spins]
ReissnerNordstromInputs == [mass : Masses, radius : Radii, theta : Thetas, charge : Spins]

InputsOf(endpoint) ==
    CASE endpoint = "schwarzschild" -> MetricInputs
      [] endpoint = "kerr" -> KerrInputs
      [] endpoint = "reissner-nordstrom" -> ReissnerNordstromInputs

\* a validation that lets mass = 0 through (ge instead of gt)
MetricInputGe(input) ==
    /\ input.mass >= 0
    /\ input.radius > 0
    /\ RLe(Zero, ThetaValue(input.theta))
    /\ RLe(ThetaValue(input.theta), Pi)

\* MetricInput: mass gt=0, radius gt=0, theta ge=0 le=np.pi; the subclasses
\* add an unconstrained float field
MetricInput(input) ==
    /\ input.mass > 0
    /\ input.radius > 0
    /\ RLe(Zero, ThetaValue(input.theta))
    /\ RLe(ThetaValue(input.theta), Pi)

----------------------------------------------------------------------------
(* app/physics/tensors.py: arrays, keys and dictionaries *)

dim == 4
Range == 0 .. (dim - 1)
Idx2 == Range \X Range
Idx3 == Range \X Range \X Range
Idx4 == Range \X Range \X Range \X Range

\* the index tuples in the order of the nested range(dim) loops
Seq2 == [k \in 1 .. 16 |-> <<(k - 1) \div 4, (k - 1) % 4>>]
Seq3 == [k \in 1 .. 64 |-> <<(k - 1) \div 16, ((k - 1) \div 4) % 4, (k - 1) % 4>>]
Seq4 == [k \in 1 .. 256 |->
            <<(k - 1) \div 64, ((k - 1) \div 16) % 4, ((k - 1) \div 4) % 4, (k - 1) % 4>>]

\* str(i) of an index and int(c) of a character
Digits == <<"0", "1", "2", "3", "4", "5", "6", "7", "8", "9">>
Str(i) == Digits[i + 1]
IntOf(c) == CHOOSE i \in 0 .. 9 : Digits[i + 1] = c

\* a key is the sequence of the characters of the Python string
ChristoffelKey(idx) == <<"Γ", Str(idx[1]), "_", Str(idx[2]), Str(idx[3])>>
RiemannKey(idx) == <<"R", Str(idx[1]), "_", Str(idx[2]), Str(idx[3]), Str(idx[4])>>
\* f"R_{j}{i}": the two indices in the other order
RicciKeyTransposed(idx) == <<"R", "_", Str(idx[2]), Str(idx[1])>>
RicciKey(idx) == <<"R", "_", Str(idx[1]), Str(idx[2])>>

\* key.replace(c, ""): drop every occurrence of one character
ReplaceChar(key, c) == LET Keep(x) == x # c IN SelectSeq(key, Keep)

\* key.replace("R_", ""): drop every occurrence of the two-character substring
RECURSIVE ReplaceRUnderscore(_)
ReplaceRUnderscore(key) ==
    IF Len(key) = 0 THEN <<>>
    ELSE IF Len(key) >= 2 /\ key[1] = "R" /\ key[2] = "_"
         THEN ReplaceRUnderscore(SubSeq(key, 3, Len(key)))
         ELSE <<key[1]>> \o ReplaceRUnderscore(Tail(key))

\* [int(i) for i in ...]
Ints(chars) == [k \in 1 .. Len(chars) |-> IntOf(chars[k])]

ParseChristoffelKey(key) == Ints(ReplaceChar(ReplaceChar(key, "Γ"), "_"))
ParseRiemannKey(key) == Ints(ReplaceChar(ReplaceChar(key, "R"), "_"))
ParseRicciKey(key) == Ints(ReplaceRUnderscore(key))

\* a dict is the sequence of its items in insertion order
Keys(dict) == {dict[k].key : k \in 1 .. Len(dict)}
Values(dict) == {dict[k].value : k \in 1 .. Len(dict)}
HasKey(dict, key) == key \in Keys(dict)
Get(dict, key) == dict[CHOOSE k \in 1 .. Len(dict) : dict[k].key = key].value

\* the "convert to dictionary format" loops: the components above the
\* tolerance, keyed, in loop order
Sparsify(array, order, keys) ==
    LET items == [k \in 1 .. Len(order) |-> [key |-> keys[order[k]], value |-> array[order[k]]]]
        NonZero(item) == AboveTol(item.value)
    IN  SelectSeq(items, NonZero)

\* the "convert to array" loops: np.zeros, then one assignment per item
ToArray(dict, indices, parsed) ==
    [idx \in indices |->
        LET hits == {k \in 1 .. Len(dict) : parsed[k] = idx}
        IN  IF hits = {} THEN Zero
            ELSE dict[CHOOSE k \in hits : \A j \in hits : j <= k].value]

\* the key of every index tuple, and the index tuple of every key of a dict
ChristoffelKeys == [idx \in Idx3 |-> ChristoffelKey(idx)]
RiemannKeys == [idx \in Idx4 |-> RiemannKey(idx)]
RicciKeys == [idx \in Idx2 |-> RicciKey(idx)]
ChristoffelIndices(dict) == [k \in 1 .. Len(dict) |-> ParseChristoffelKey(dict[k].key)]
RiemannIndices(dict) == [k \in 1 .. Len(dict) |-> ParseRiemannKey(dict[k].key)]
RicciIndices(dict) == [k \in 1 .. Len(dict) |-> ParseRicciKey(dict[k].key)]

\* the diagonal matrix g the functions fill from the metric dict
MetricMatrix(metric_dict) ==
    [idx \in Idx2 |->
        IF idx[1] # idx[2] THEN Zero
        ELSE CASE idx[1] = 0 -> metric_dict.g_tt
               [] idx[1] = 1 -> metric_dict.g_rr
               [] idx[1] = 2 -> metric_dict.g_theta_theta
               [] idx[1] = 3 -> metric_dict.g_phi_phi]

\* np.linalg.inv raises LinAlgError on a zero pivot
Singular(g) == \E i \in Range : RIsZero(g[<<i, i>>])

\* np.linalg.inv of the diagonal matrix
Inverse(g) ==
    [idx \in Idx2 |-> IF idx[1] # idx[2] THEN Zero ELSE RDiv(One, g[idx])]

ZeroMatrix == [idx \in Idx2 |-> Zero]
Diag(d0, d1, d2, d3) ==
    [idx \in Idx2 |->
        IF idx[1] # idx[2] THEN Zero
        ELSE CASE idx[1] = 0 -> d0 [] idx[1] = 1 -> d1 [] idx[1] = 2 -> d2 [] idx[1] = 3 -> d3]

Raised(exc) == [exc |-> exc]
Returned(value) == [exc |-> "none", value |-> value]

----------------------------------------------------------------------------
(* calculate_christoffel_symbols *)

\* the divisor whose vanishing makes get_metric_derivatives raise
\* ZeroDivisionError (all its operands are Python floats)
DerivativeDivisor(coords) ==
    LET r == Int2Rat(coords.radius)
        M == Int2Rat(coords.mass)
    IN  CASE coords.metric_type = "schwarzschild" ->
                RSub(One, RDiv(RScale(2, M), r))
          [] coords.metric_type = "kerr" ->
                RAdd(RSub(RSq(r), RMul(RScale(2, M), r)), RSq(Int2Rat(coords.angular_momentum)))
          [] OTHER ->
                RAdd(RSub(One, RDiv(RScale(2, M), r)),
                     RDiv(RSq(Int2Rat(coords.charge)), RSq(r)))

\* the derivative matrices dg_dr, dg_dtheta, dg_dphi
get_metric_derivatives(coords) ==
    LET r == Int2Rat(coords.radius)
        M == Int2Rat(coords.mass)
        sin == Sin(coords.theta)
        cos == Cos(coords.theta)
    IN  CASE coords.metric_type = "schwarzschild" ->
                [dg_dr |-> Diag(RDiv(RScale(-2, M), RSq(r)),
                                RDiv(RScale(2, M),
                                     RMul(RSq(r), RSq(RSub(One, RDiv(RScale(2, M), r))))),
                                RScale(2, r),
                                RMul(RScale(2, r), RSq(sin))),
                 dg_dtheta |-> Diag(Zero, Zero, Zero,
                                    RMul(RMul(RScale(2, RSq(r)), sin), cos)),
                 dg_dphi |-> ZeroMatrix]
          [] coords.metric_type = "kerr" ->
                LET a == Int2Rat(coords.angular_momentum)
                    rho2 == RAdd(RSq(r), RMul(RSq(a), RSq(cos)))
                    delta == RAdd(RSub(RSq(r), RMul(RScale(2, M), r)), RSq(a))
                IN  [dg_dr |-> Diag(RDiv(RMul(RScale(-2, M), RSub(rho2, RScale(2, RSq(r)))),
                                         RSq(rho2)),
                                    RDiv(RScale(-2, RSub(r, M)), RSq(delta)),
                                    Zero, Zero),
                     dg_dtheta |-> ZeroMatrix,
                     dg_dphi |-> ZeroMatrix]
          [] OTHER ->
                LET Q2 == RSq(Int2Rat(coords.charge))
                    f == RAdd(RSub(One, RDiv(RScale(2, M), r)), RDiv(Q2, RSq(r)))
                IN  [dg_dr |-> Diag(RScale(-2, RAdd(RDiv(RNeg(M), RSq(r)), RDiv(Q2, RCube(r)))),
                                    RDiv(RScale(2, RSub(RDiv(M, RSq(r)), RDiv(Q2, RCube(r)))),
                                         RSq(f)),
                                    RScale(2, r),
                                    RMul(RScale(2, r), RSq(sin))),
                     dg_dtheta |-> Diag(Zero, Zero, Zero,
                                        RMul(RMul(RScale(2, RSq(r)), sin), cos)),
                     dg_dphi |-> ZeroMatrix]

\* a factor kept in shared state that the first finished invocation changes
HalfUntilFirstCall == IF log = <<>> THEN Rat(1, 2) ELSE Rat(1, 1)

\* the factor 0.5 of the sum
Half == Rat(1, 2)

\* one summand of the sigma loop: 0.5 * g_inv[mu,sigma] * (the nine terms)
ChristoffelTerm(g_inv, d, mu, alpha, beta, sigma) ==
    LET terms == <<BoolMul(d.dg_dr[<<beta, sigma>>], alpha = 1),
                   BoolMul(d.dg_dr[<<alpha, sigma>>], beta = 1),
                   RNeg(BoolMul(d.dg_dr[<<sigma, alpha>>], beta = 1)),
                   BoolMul(d.dg_dtheta[<<beta, sigma>>], alpha = 2),
                   BoolMul(d.dg_dtheta[<<alpha, sigma>>], beta = 2),
                   RNeg(BoolMul(d.dg_dtheta[<<sigma, alpha>>], beta = 2)),
                   BoolMul(d.dg_dphi[<<beta, sigma>>], alpha = 3),
                   BoolMul(d.dg_dphi[<<alpha, sigma>>], beta = 3),
                   RNeg(BoolMul(d.dg_dphi[<<sigma, alpha>>], beta = 3))>>
    IN  RMul(RMul(Half, g_inv[<<mu, sigma>>]), SumRange(terms, 1, 9))

\* the array gamma after the mu, alpha, beta, sigma loops
ChristoffelArray(g_inv, d) ==
    [idx \in Idx3 |->
        LET summands == [sigma \in 1 .. dim |->
                            ChristoffelTerm(g_inv, d, idx[1], idx[2], idx[3], sigma - 1)]
        IN  SumRange(summands, 1, dim)]

\* the docstring's formula: the derivative of g along coordinate k (the
\* metric does not depend on t)
Partial(d, k) ==
    CASE k = 0 -> ZeroMatrix
      [] k = 1 -> d.dg_dr
      [] k = 2 -> d.dg_dtheta
      [] k = 3 -> d.dg_dphi

\* (1/2) g^{mu sigma} (d_alpha g_{beta sigma} + d_beta g_{alpha sigma}
\*                     - d_sigma g_{alpha beta}), summed over sigma
DocstringArray(g_inv, d) ==
    [idx \in Idx3 |->
        LET mu == idx[1]
            alpha == idx[2]
            beta == idx[3]
            summands == [s \in 1 .. dim |->
                RMul(RMul(Half, g_inv[<<mu, s - 1>>]),
                     RSub(RAdd(Partial(d, alpha)[<<beta, s - 1>>],
                               Partial(d, beta)[<<alpha, s - 1>>]),
                          Partial(d, s - 1)[<<alpha, beta>>]))]
        IN  SumRange(summands, 1, dim)]

\* lines 9-84: g, its inverse and the derivative matrices; np.linalg.inv and
\* get_metric_derivatives are where the function can raise
christoffel_locals(metric_dict, coords) ==
    LET g == MetricMatrix(metric_dict)
    IN  IF Singular(g) THEN Raised("LinAlgError")
        ELSE IF RIsZero(DerivativeDivisor(coords)) THEN Raised("ZeroDivisionError")
        ELSE Returned([g_inv |-> Inverse(g), d |-> get_metric_derivatives(coords)])

\* lines 86-112: the loops and the conversion to a dict
christoffel_dict(locals) ==
    Sparsify(ChristoffelArray(locals.g_inv, locals.d), Seq3, ChristoffelKeys)

----------------------------------------------------------------------------
(* calculate_riemann_tensor *)

\* np.zeros with the listed components assigned
WithComponents(assigned) ==
    [idx \in Idx4 |-> IF idx \in DOMAIN assigned THEN assigned[idx] ELSE Zero]

\* the hardcoded components of each family
RiemannArray(coords) ==
    LET r == Int2Rat(coords.radius)
        M == Int2Rat(coords.mass)
    IN  CASE coords.metric_type = "schwarzschild" ->
                LET f == RSub(One, RDiv(RScale(2, M), r))
                IN  WithComponents(
                        (<<0, 1, 0, 1>> :> RDiv(RScale(2, M), RMul(RCube(r), f)))
                     @@ (<<0, 1, 1, 0>> :> RDiv(RScale(-2, M), RMul(RCube(r), f)))
                     @@ (<<2, 3, 2, 3>> :> RDiv(RScale(2, M), r))
                     @@ (<<2, 3, 3, 2>> :> RDiv(RScale(-2, M), r)))
          [] coords.metric_type = "kerr" ->
                LET a == Int2Rat(coords.angular_momentum)
                    cos == Cos(coords.theta)
                    rho2 == RAdd(RSq(r), RMul(RSq(a), RSq(cos)))
                IN  WithComponents(
                        (<<0, 1, 0, 1>> :> RDiv(RMul(M, RSub(RSq(r), RMul(RSq(a), RSq(cos)))),
                                                RCube(rho2)))
                     @@ (<<0, 2, 0, 2>> :> RDiv(RMul(RNeg(M), r), RSq(rho2))))
          [] OTHER ->
                LET Q == Int2Rat(coords.charge)
                    x == RDiv(RSub(RMul(RScale(2, M), r), RSq(Q)), RPow4(r))
                IN  WithComponents((<<0, 1, 0, 1>> :> x) @@ (<<2, 3, 2, 3>> :> x))

\* the christoffel dict is parsed into an array (lines 122-126) that no later
\* line reads; the components depend on coords alone
calculate_riemann_tensor(metric_dict, christoffel_symbols, coords) ==
    LET gamma == ToArray(christoffel_symbols, Idx3, ChristoffelIndices(christoffel_symbols))
    IN  IF coords.metric_type = "schwarzschild"
           /\ RIsZero(RSub(One, RDiv(RScale(2, Int2Rat(coords.mass)), Int2Rat(coords.radius))))
        THEN Raised("ZeroDivisionError")
        ELSE Returned(Sparsify(RiemannArray(coords), Seq4, RiemannKeys))

----------------------------------------------------------------------------
(* calculate_ricci_tensor *)

\* ricci[i,j] += riemann_array[k,i,k,j] for k in range(dim)
RicciArray(riemann_array) ==
    [idx \in Idx2 |->
        LET summands == [k \in 1 .. dim |-> riemann_array[<<k - 1, idx[1], k - 1, idx[2]>>]]
        IN  SumRange(summands, 1, dim)]

calculate_ricci_tensor(riemann_dict) ==
    Sparsify(RicciArray(ToArray(riemann_dict, Idx4, RiemannIndices(riemann_dict))), Seq2, RicciKeys)

----------------------------------------------------------------------------
(* calculate_ricci_scalar *)

\* R += g_inv[i,j] * ricci_tensor[i,j] over the i, j loops
ScalarSum(g_inv, ricci_tensor) ==
    LET summands == [k \in 1 .. 16 |-> RMul(g_inv[Seq2[k]], ricci_tensor[Seq2[k]])]
    IN  SumRange(summands, 1, 16)

calculate_ricci_scalar(ricci_dict, metric_dict) ==
    LET g == MetricMatrix(metric_dict)
    IN  IF Singular(g) THEN Raised("LinAlgError")
        ELSE Returned(ScalarSum(Inverse(g), ToArray(ricci_dict, Idx2, RicciIndices(ricci_dict))))

----------------------------------------------------------------------------
(* app/main.py: the bodies of the three endpoints *)

\* np.float64 / 0.0 is inf (a warning, no exception)
Inf == [n |-> 1, d |-> 0]

None == [none |-> TRUE]

JSONResponse(status_code, error) == [status |-> status_code, error |-> error]

MetricResponse(components, rplus, rminus, gammas, riemann_tensor, ricci_tensor, scalar) ==
    [status |-> 200,
     metric_components |-> components,
     event_horizon |-> rplus,
     cauchy_horizon |-> rminus,
     christoffel_symbols |-> gammas,
     riemann_tensor |-> riemann_tensor,
     ricci_tensor |-> ricci_tensor,
     ricci_scalar |-> scalar]

\* the outcome of the part of a body that precedes the tensor calls: an early
\* return, an exception, or the metric and the horizons
EarlyReturn(resp) == [early |-> TRUE, response |-> resp]
Thrown(exc) == [early |-> FALSE, exc |-> exc]
Built(metric_dict, event_horizon, cauchy_horizon) ==
    [early |-> FALSE, exc |-> "none", metric |-> metric_dict,
     horizons |-> [event_horizon |-> event_horizon, cauchy_horizon |-> cauchy_horizon]]

\* the coords dict an endpoint hands to the tensor functions
Coords(endpoint, input_data) ==
    CASE endpoint = "schwarzschild" ->
            [mass |-> input_data.mass, radius |-> input_data.radius,
             theta |-> input_data.theta, metric_type |-> "schwarzschild"]
      [] endpoint = "kerr" ->
            [mass |-> input_data.mass, radius |-> input_data.radius,
             theta |-> input_data.theta,
             angular_momentum |-> input_data.angular_momentum,
             metric_type |-> "kerr"]
      [] endpoint = "reissner-nordstrom" ->
            [mass |-> input_data.mass, radius |-> input_data.radius,
             theta |-> input_data.theta, charge |-> input_data.charge,
             metric_type |-> "reissner-nordstrom"]

\* calculate_schwarzschild, lines 102-117: 1 / (1 - rs / r) divides Python floats
calculate_schwarzschild(input_data) ==
    LET mass == Int2Rat(input_data.mass)
        radius == Int2Rat(input_data.radius)
        sin == Sin(input_data.theta)
        rs == RScale(2, mass)
        h == RSub(One, RDiv(rs, radius))
    IN  IF RIsZero(h) THEN Thrown("ZeroDivisionError")
        ELSE Built([g_tt |-> RNeg(h),
                    g_rr |-> RDiv(One, h),
                    g_theta_theta |-> RMul(radius, radius),
                    g_phi_phi |-> RMul(RMul(RMul(radius, radius), sin), sin)],
                   rs, None)

\* the inner root, mass - sqrt(...)
KerrHorizonInner(input_data) ==
    RSub(Int2Rat(input_data.mass),
         Int2Rat(ISqrt(input_data.mass * input_data.mass
                        - input_data.angular_momentum * input_data.angular_momentum)))

\* "Calculate event horizon (outer)"
KerrHorizon(input_data) ==
    RAdd(Int2Rat(input_data.mass),
         Int2Rat(ISqrt(input_data.mass * input_data.mass
                        - input_data.angular_momentum * input_data.angular_momentum)))

\* calculate_kerr, lines 169-197: rho2 is a np.float64, so rho2 / delta is inf
\* at delta = 0
calculate_kerr(input_data) ==
    IF input_data.angular_momentum * input_data.angular_momentum
           > input_data.mass * input_data.mass
    THEN EarlyReturn(JSONResponse(400, "Angular momentum squared cannot exceed mass squared"))
    ELSE
    LET radius == Int2Rat(input_data.radius)
        sin == Sin(input_data.theta)
        cos == Cos(input_data.theta)
        a == Int2Rat(input_data.angular_momentum)
        rs == RScale(2, Int2Rat(input_data.mass))
        rho2 == RAdd(RMul(radius, radius), RMul(RMul(RMul(a, a), cos), cos))
        delta == RAdd(RSub(RMul(radius, radius), RMul(rs, radius)), RMul(a, a))
    IN  Built([g_tt |-> RNeg(RSub(One, RDiv(RMul(rs, radius), rho2))),
               g_rr |-> IF RIsZero(delta) THEN Inf ELSE RDiv(rho2, delta),
               g_theta_theta |-> rho2,
               g_phi_phi |->
                   RMul(RMul(RAdd(RAdd(RMul(radius, radius), RMul(a, a)),
                                  RDiv(RMul(RMul(RMul(RMul(rs, radius), RMul(a, a)), sin), sin),
                                       rho2)),
                             sin), sin)],
              KerrHorizon(input_data), None)

\* both roots taken with the plus sign
ReissnerNordstromHorizonsSameSign(input_data) ==
    LET mass == Int2Rat(input_data.mass)
        discriminant == input_data.mass * input_data.mass
                            - input_data.charge * input_data.charge
    IN  IF discriminant >= 0
        THEN [outer_horizon |-> RAdd(mass, Int2Rat(ISqrt(discriminant))),
              inner_horizon |-> RAdd(mass, Int2Rat(ISqrt(discriminant)))]
        ELSE [outer_horizon |-> None, inner_horizon |-> None]

\* "Calculate horizons": both roots when the discriminant is not negative
ReissnerNordstromHorizons(input_data) ==
    LET mass == Int2Rat(input_data.mass)
        discriminant == input_data.mass * input_data.mass
                            - input_data.charge * input_data.charge
    IN  IF discriminant >= 0
        THEN [outer_horizon |-> RAdd(mass, Int2Rat(ISqrt(discriminant))),
              inner_horizon |-> RSub(mass, Int2Rat(ISqrt(discriminant)))]
        ELSE [outer_horizon |-> None, inner_horizon |-> None]

\* calculate_reissner_nordstrom, lines 252-282: 1 / f divides Python floats
calculate_reissner_nordstrom(input_data) ==
    IF input_data.charge * input_data.charge > input_data.mass * input_data.mass
    THEN EarlyReturn(JSONResponse(400, "Charge squared cannot exceed mass squared (naked singularity)"))
    ELSE
    LET mass == Int2Rat(input_data.mass)
        radius == Int2Rat(input_data.radius)
        charge == Int2Rat(input_data.charge)
        sin == Sin(input_data.theta)
        f == RAdd(RSub(One, RDiv(RScale(2, mass), radius)),
                  RDiv(RMul(charge, charge), RMul(radius, radius)))
        h == ReissnerNordstromHorizons(input_data)
    IN  IF RIsZero(f) THEN Thrown("ZeroDivisionError")
        ELSE Built([g_tt |-> RNeg(f),
                    g_rr |-> RDiv(One, f),
                    g_theta_theta |-> RMul(radius, radius),
                    g_phi_phi |-> RMul(RMul(RMul(radius, radius), sin), sin)],
                   h.outer_horizon, h.inner_horizon)

BodyStart(endpoint, input_data) ==
    CASE endpoint = "schwarzschild" -> calculate_schwarzschild(input_data)
      [] endpoint = "kerr" -> calculate_kerr(input_data)
      [] endpoint = "reissner-nordstrom" -> calculate_reissner_nordstrom(input_data)

----------------------------------------------------------------------------
(* The inputs at which the rational model and the float computation agree *)

RECURSIVE IsPow2(_)
IsPow2(n) == n = 1 \/ (n > 1 /\ n % 2 = 0 /\ IsPow2(n \div 2))

\* a quotient of integers that a float holds exactly
Dyadic(x) == IsPow2(x.d)

\* np.sqrt is exact on perfect squares only; a metric function that vanishes
\* must vanish in floats too (integer or dyadic operands), and a Kerr point
\* off the equator keeps rho2 an integer
FloatExact(endpoint, input) ==
    LET M == input.mass
        r == input.radius
    IN  CASE endpoint = "schwarzschild" -> TRUE
          [] endpoint = "kerr" ->
                LET a == input.angular_momentum
                IN  \/ a * a > M * M
                    \/ /\ IsSquare(M * M - a * a)
                       /\ input.theta = "asin(3/5)" =>
                            /\ a % 5 = 0
                            /\ 25 * 2 * M * r # 25 * r * r + 16 * a * a
          [] endpoint = "reissner-nordstrom" ->
                LET Q == input.charge
                IN  \/ Q * Q > M * M
                    \/ /\ IsSquare(M * M - Q * Q)
                       /\ r * r - 2 * M * r + Q * Q = 0 =>
                            /\ Dyadic(Rat(2 * M, r))
                            /\ Dyadic(Rat(Q * Q, r * r))

\* the arguments FastAPI can hand to an endpoint body: validated models
ValidInputs(endpoint) ==
    {input \in InputsOf(endpoint) : MetricInput(input) /\ FloatExact(endpoint, input)}

----------------------------------------------------------------------------
(* app/api/endpoints/auth.py: the login rate limit *)

max_attempts == 5
rate_limit_window == 300

\* the clock advances in steps of TickSeconds
TickSeconds == 200

\* the threadpool workers that run the three "def" endpoints
Workers == {1, 2}
ClientIPs == {"10.0.0.1"}
AuthEndpoints == {"login", "firebase-login", "reset-password"}

\* defaultdict(lambda: {"count": 0, "reset_at": 0}); id tells the dict
\* objects that were bound to one IP apart
NoAttempts == [id |-> 0, count |-> 0, reset_at |-> 0]

Idle == [pc |-> "idle"]

----------------------------------------------------------------------------
(* The users, the calculations and the caches of the auth services *)

UserIds == {1, 2}
NoRow == [exists |-> FALSE]
NoEntry == [cached |-> FALSE]
NoAnswer == [op |-> "none"]
NotCalled == [pc |-> "idle"]

\* user 1 is an active user whose firebase_uid is the placeholder uid, user
\* 2 is an active admin
InitialUsers ==
    [id \in UserIds |->
        [exists |-> TRUE, id |-> id, is_active |-> TRUE, is_admin |-> id = 2,
         email |-> IF id = 1 THEN "user1@example.com" ELSE "user2@example.com",
         firebase_uid |-> IF id = 1 THEN "firebase-uid-123" ELSE "firebase-uid-2"]]

CalculationIds == {1, 2, 3}

\* the calculation types perform_calculation has a branch for
Implemented == {"vacuum", "matter", "schwarzschild", "kerr", "christoffel"}

\* perform_calculation(calculation_type, inputs): the result of the branch of
\* the type, an error record for the other types
perform_calculation(calculation_type, inputs) ==
    IF calculation_type \in Implemented
    THEN [type |-> calculation_type, computed_from |-> inputs]
    ELSE [error |-> "not implemented", type |-> calculation_type]

\* the calculations table: calculation 1 belongs to user 1 and is public,
\* calculation 2 belongs to the admin and is private, id 3 is free
InitialCalculations ==
    [id \in CalculationIds |->
        IF id = 3 THEN NoRow
        ELSE [exists |-> TRUE, id |-> id, user_id |-> id, type |-> "schwarzschild",
              description |-> "none", inputs |-> [mass |-> 1],
              results |-> perform_calculation("schwarzschild", [mass |-> 1]),
              is_public |-> id = 1]]

----------------------------------------------------------------------------
(* A call of an endpoint body, statement by statement *)

Stages == {"idle", "body", "christoffel", "loops", "riemann", "ricci", "scalar",
           "return", "returned"}

Init ==
    /\ call = NoCall
    /\ stage = "idle"
    /\ metric = None
    /\ horizons = None
    /\ frame = None
    /\ christoffel = <<>>
    /\ riemann = <<>>
    /\ ricci = <<>>
    /\ ricci_scalar = None
    /\ caught = None
    /\ response = NoResponse
    /\ calls = <<>>
    /\ http_pc = "idle"
    /\ http_req = NoCall
    /\ http_resp = NoResponse
    /\ cache_ops = <<>>
    /\ served = 0
    /\ log = <<>>
    /\ login_attempts = [ip \in ClientIPs |-> NoAttempts]
    /\ now = TickSeconds
    /\ workers = [w \in Workers |-> Idle]
    /\ admitted = [ip \in ClientIPs |-> 0]
    /\ logins = 0
    /\ token_cache = {}
    /\ users = InitialUsers
    /\ user_cache = [id \in UserIds |-> NoEntry]
    /\ answer = NoAnswer
    /\ wrapped = NotCalled
    /\ redis = <<>>
    /\ calculations = InitialCalculations

httpVars == <<http_pc, http_req, http_resp, cache_ops>>
localVars == <<metric, horizons, frame, christoffel, riemann, ricci, ricci_scalar, caught>>
coreVars == <<call, stage, localVars, response, calls>>
limiterVars == <<login_attempts, workers, admitted, logins>>
engineVars == <<coreVars, httpVars, served, log>>

\* the body of an endpoint is entered with a validated model
Enter(endpoint, input) ==
    /\ stage = "idle"
    /\ http_pc = "idle"
    /\ served < MaxServed
    /\ call' = [endpoint |-> endpoint, input |-> input]
    /\ stage' = "body"
    /\ UNCHANGED <<localVars, response, calls, httpVars, served, log, authVars>>

\* str(e) of the exceptions the bodies can raise
Message(exc) ==
    CASE exc = "ZeroDivisionError" -> "float division by zero"
      [] exc = "LinAlgError" -> "Singular matrix"

\* "except Exception as e": any exception inside the try block becomes a 500
\* whose content is {"error": str(e)}
Except(exc) ==
    /\ caught' = [class |-> exc, message |-> Message(exc)]
    /\ response' = JSONResponse(500, Message(exc))
    /\ stage' = "returned"

\* the statements before the tensor calls: parameter check, metric, horizons
Build(endpoint) ==
    /\ stage = "body"
    /\ call.endpoint = endpoint
    /\ LET built == BodyStart(endpoint, call.input)
       IN  IF built.early
           THEN /\ response' = built.response
                /\ stage' = "returned"
                /\ UNCHANGED <<metric, horizons, caught>>
           ELSE IF built.exc # "none"
           THEN Except(built.exc) /\ UNCHANGED <<metric, horizons>>
           ELSE /\ metric' = built.metric
                /\ horizons' = built.horizons
                /\ stage' = "christoffel"
                /\ UNCHANGED <<response, caught>>
    /\ UNCHANGED <<call, frame, christoffel, riemann, ricci, ricci_scalar, calls,
                   httpVars, served, log, authVars>>

BuildSchwarzschild == Build("schwarzschild")
BuildKerr == Build("kerr")
BuildReissnerNordstrom == Build("reissner-nordstrom")

\* christoffel = calculate_christoffel_symbols(metric, coords), up to its loops
ChristoffelLocals ==
    /\ stage = "christoffel"
    /\ calls' = Append(calls, "calculate_christoffel_symbols")
    /\ LET locals == christoffel_locals(metric, Coords(call.endpoint, call.input))
       IN  IF locals.exc # "none"
           THEN Except(locals.exc) /\ UNCHANGED frame
           ELSE /\ frame' = locals.value
                /\ stage' = "loops"
                /\ UNCHANGED <<response, caught>>
    /\ UNCHANGED <<call, metric, horizons, christoffel, riemann, ricci, ricci_scalar,
                   httpVars, served, log, authVars>>

\* the loops of calculate_christoffel_symbols and its return
ChristoffelLoops ==
    /\ stage = "loops"
    /\ christoffel' = christoffel_dict(frame)
    /\ frame' = None
    /\ stage' = "riemann"
    /\ UNCHANGED <<call, metric, horizons, riemann, ricci, ricci_scalar, caught, response,
                   calls, httpVars, served, log, authVars>>

\* riemann = calculate_riemann_tensor(metric, christoffel, coords)
Riemann ==
    /\ stage = "riemann"
    /\ calls' = Append(calls, "calculate_riemann_tensor")
    /\ LET result == calculate_riemann_tensor(metric, christoffel,
                                              Coords(call.endpoint, call.input))
       IN  IF result.exc # "none"
           THEN Except(result.exc) /\ UNCHANGED riemann
           ELSE /\ riemann' = result.value
                /\ stage' = "ricci"
                /\ UNCHANGED <<response, caught>>
    /\ UNCHANGED <<call, metric, horizons, frame, christoffel, ricci, ricci_scalar,
                   httpVars, served, log, authVars>>

\* ricci = calculate_ricci_tensor(riemann)
Ricci ==
    /\ stage = "ricci"
    /\ calls' = Append(calls, "calculate_ricci_tensor")
    /\ ricci' = calculate_ricci_tensor(riemann)
    /\ stage' = "scalar"
    /\ UNCHANGED <<call, metric, horizons, frame, christoffel, riemann, ricci_scalar,
                   caught, response, httpVars, served, log, authVars>>

\* ricci_scalar = calculate_ricci_scalar(ricci, metric)
RicciScalar ==
    /\ stage = "scalar"
    /\ calls' = Append(calls, "calculate_ricci_scalar")
    /\ LET result == calculate_ricci_scalar(ricci, metric)
       IN  IF result.exc # "none"
           THEN Except(result.exc) /\ UNCHANGED ricci_scalar
           ELSE /\ ricci_scalar' = result.value
                /\ stage' = "return"
                /\ UNCHANGED <<response, caught>>
    /\ UNCHANGED <<call, metric, horizons, frame, christoffel, riemann, ricci,
                   httpVars, served, log, authVars>>

\* return MetricResponse(...)
Return ==
    /\ stage = "return"
    /\ response' = MetricResponse(metric, horizons.event_horizon, horizons.cauchy_horizon,
                                  christoffel, riemann, ricci, ricci_scalar)
    /\ stage' = "returned"
    /\ UNCHANGED <<call, localVars, calls, httpVars, served, log, authVars>>

\* the caller takes the result; the locals of the call are gone
Leave ==
    /\ stage = "returned"
    /\ stage' = "idle"
    /\ call' = NoCall
    /\ metric' = None
    /\ horizons' = None
    /\ frame' = None
    /\ christoffel' = <<>>
    /\ riemann' = <<>>
    /\ ricci' = <<>>
    /\ ricci_scalar' = None
    /\ caught' = None
    /\ response' = NoResponse
    /\ calls' = <<>>
    /\ served' = served + 1
    /\ UNCHANGED <<httpVars, log, authVars>>

Next ==
    \/ \E endpoint \in Endpoints : \E input \in ValidInputs(endpoint) : Enter(endpoint, input)
    \/ BuildSchwarzschild
    \/ BuildKerr
    \/ BuildReissnerNordstrom
    \/ ChristoffelLocals
    \/ ChristoffelLoops
    \/ Riemann
    \/ Ricci
    \/ RicciScalar
    \/ Return
    \/ Leave

Spec == Init /\ [][Next]_vars

----------------------------------------------------------------------------
(* A caller that invokes the pipeline several times and keeps each result *)

MaxCalls == 3

\* test_horizon_crossing's point r = 1.05 rs (mass 1.0, radius 2.1), in integers
NearHorizonData == [mass |-> 10, radius |-> 21, theta |-> "pi/2"]

\* the invocations the caller chooses from: one per endpoint with the same
\* mass and radius, and a second Schwarzschild point
RepeatedCalls ==
    {[endpoint |-> "schwarzschild", input |-> [mass |-> 1, radius |-> 10, theta |-> "pi/2"]],
     [endpoint |-> "schwarzschild", input |-> NearHorizonData],
     [endpoint |-> "kerr", input |-> [mass |-> 1, radius |-> 10, theta |-> "pi/2", angular_momentum |-> 0]],
     [endpoint |-> "reissner-nordstrom", input |-> [mass |-> 1, radius |-> 10, theta |-> "pi/2", charge |-> 0]]}

\* the arguments the four tensor functions were called with, and what they
\* returned or raised
Invocation ==
    [inputs |-> [metric |-> metric, coords |-> Coords(call.endpoint, call.input)],
     outputs |-> [christoffel |-> christoffel, riemann |-> riemann, ricci |-> ricci,
                  ricci_scalar |-> ricci_scalar, caught |-> caught],
     calls |-> calls]

\* the caller takes the result and keeps it; the locals of the call are gone
Collect ==
    /\ stage = "returned"
    /\ Len(log) < MaxCalls
    /\ log' = Append(log, Invocation)
    /\ stage' = "idle"
    /\ call' = NoCall
    /\ metric' = None
    /\ horizons' = None
    /\ frame' = None
    /\ christoffel' = <<>>
    /\ riemann' = <<>>
    /\ ricci' = <<>>
    /\ ricci_scalar' = None
    /\ caught' = None
    /\ response' = NoResponse
    /\ calls' = <<>>
    /\ UNCHANGED <<httpVars, served, authVars>>

NextCalls ==
    \/ \E c \in RepeatedCalls : Enter(c.endpoint, c.input)
    \/ BuildSchwarzschild
    \/ BuildKerr
    \/ BuildReissnerNordstrom
    \/ ChristoffelLocals
    \/ ChristoffelLoops
    \/ Riemann
    \/ Ricci
    \/ RicciScalar
    \/ Return
    \/ Collect

SpecCalls == Init /\ [][NextCalls]_vars

----------------------------------------------------------------------------
(* The HTTP path to an endpoint: FastAPI validation, then the wrapper of    *)
(* cache_response around the body                                           *)

\* the request model FastAPI builds for an endpoint
ModelClass(endpoint) ==
    CASE endpoint = "schwarzschild" -> "MetricInput"
      [] endpoint = "kerr" -> "KerrInput"
      [] endpoint = "reissner-nordstrom" -> "ReissnerNordstromInput"

\* func.__name__ of the decorated function
FuncName(endpoint) ==
    CASE endpoint = "schwarzschild" -> "calculate_schwarzschild"
      [] endpoint = "kerr" -> "calculate_kerr"
      [] endpoint = "reissner-nordstrom" -> "calculate_reissner_nordstrom"

\* the types json.dumps encodes; any other object raises TypeError
JsonTypes == {"dict", "list", "tuple", "str", "int", "float", "bool", "NoneType"}
JsonSerializable(value) == value.class \in JsonTypes

\* generate_cache_key(prefix, **kwargs): json.dumps of the arguments, hashed
generate_cache_key(prefix, kwargs) ==
    IF \A name \in DOMAIN kwargs : JsonSerializable(kwargs[name])
    THEN Returned([prefix |-> prefix, kwargs |-> kwargs])
    ELSE Raised("TypeError")

\* the keyword arguments FastAPI calls the wrapper with
Kwargs(req) == [input_data |-> [class |-> ModelClass(req.endpoint), fields |-> req.input]]

\* a client posts a JSON body
Request(endpoint, input) ==
    /\ http_pc = "idle"
    /\ stage = "idle"
    /\ served < MaxServed
    /\ http_req' = [endpoint |-> endpoint, input |-> input]
    /\ http_pc' = "validate"
    /\ http_resp' = NoResponse
    /\ cache_ops' = <<>>
    /\ UNCHANGED <<coreVars, served, log, authVars>>

\* FastAPI validates the body against the input model: 422 on a violation
Validate ==
    /\ http_pc = "validate"
    /\ IF MetricInput(http_req.input)
       THEN /\ http_pc' = "wrapper"
            /\ UNCHANGED http_resp
       ELSE /\ http_pc' = "responded"
            /\ http_resp' = [status |-> 422, error |-> "validation"]
    /\ UNCHANGED <<http_req, cache_ops, coreVars, served, log, authVars>>

\* what the server answers when an exception leaves the endpoint function
InternalServerError == [status |-> 500, error |-> "Internal Server Error"]

\* wrapper, line 37: the key is generated outside the try block, so the
\* TypeError of json.dumps leaves the wrapper and the server answers 500
CacheKeyError ==
    /\ http_pc = "wrapper"
    /\ generate_cache_key(FuncName(http_req.endpoint), Kwargs(http_req)).exc # "none"
    /\ http_resp' = InternalServerError
    /\ http_pc' = "responded"
    /\ UNCHANGED <<http_req, cache_ops, coreVars, served, log, authVars>>

\* the response is sent
Respond ==
    /\ http_pc = "responded"
    /\ http_pc' = "idle"
    /\ http_req' = NoCall
    /\ http_resp' = NoResponse
    /\ cache_ops' = <<>>
    /\ served' = served + 1
    /\ UNCHANGED <<coreVars, log, authVars>>

NextHttp ==
    \/ \E endpoint \in Endpoints : \E input \in InputsOf(endpoint) : Request(endpoint, input)
    \/ Validate
    \/ CacheKeyError
    \/ Respond

SpecHttp == Init /\ [][NextHttp]_vars

----------------------------------------------------------------------------
(* GET /cache/stats *)

MaxCount == 2

\* what redis_client.info() can return: the counters of the server, with
\* used_memory_human present or absent
RedisInfos ==
    [connected_clients : 1 .. 2, keyspace_hits : 0 .. MaxCount, keyspace_misses : 0 .. MaxCount,
     uptime_in_seconds : {1}]
    \cup [used_memory_human : {"1.05M"}, connected_clients : 1 .. 2,
          keyspace_hits : 0 .. MaxCount, keyspace_misses : 0 .. MaxCount,
          uptime_in_seconds : {1}]

\* info.get(key, default)
DictGet(dict, key, default) == IF key \in DOMAIN dict THEN dict[key] ELSE default

\* get_cache_stats(): the statistics, or the error dict on a RedisError
get_cache_stats(reply) ==
    IF reply.exc # "none"
    THEN [error |-> "Redis connection failed", status |-> "unavailable"]
    ELSE [used_memory |-> DictGet(reply.value.info, "used_memory_human", "N/A"),
          connected_clients |-> DictGet(reply.value.info, "connected_clients", 0),
          total_keys |-> reply.value.keys,
          hits |-> DictGet(reply.value.info, "keyspace_hits", 0),
          misses |-> DictGet(reply.value.info, "keyspace_misses", 0),
          uptime_seconds |-> DictGet(reply.value.info, "uptime_in_seconds", 0)]

\* what redis answers to info() and scan_iter("*")
RedisReplies ==
    {Raised("RedisError")}
    \cup {Returned([info |-> info, keys |-> keys]) : info \in RedisInfos, keys \in 0 .. MaxCount}

\* a client sends GET /cache/stats
GetCacheStats ==
    /\ http_pc = "idle"
    /\ stage = "idle"
    /\ served < MaxServed
    /\ http_req' = [endpoint |-> "cache/stats"]
    /\ http_pc' = "stats"
    /\ http_resp' = NoResponse
    /\ cache_ops' = <<>>
    /\ UNCHANGED <<coreVars, served, log, authVars>>

\* cache_stats(): return get_cache_stats(), sent as a 200 JSON body
cache_stats(reply) ==
    /\ http_pc = "stats"
    /\ http_resp' = [status |-> 200, body |-> get_cache_stats(reply)]
    /\ http_pc' = "responded"
    /\ UNCHANGED <<http_req, cache_ops, coreVars, served, log, authVars>>

NextStats ==
    \/ GetCacheStats
    \/ \E reply \in RedisReplies : cache_stats(reply)
    \/ Respond

SpecStats == Init /\ [][NextStats]_vars

----------------------------------------------------------------------------
(* tests/test_api.py, TestCaching: a client that keeps the responses it gets *)

\* data, data1 and data2 of TestCaching
CacheHitData == [mass |-> 1, radius |-> 10, theta |-> "pi/2"]
CacheMissData == [mass |-> 2, radius |-> 10, theta |-> "pi/2"]

\* the requests the client posts: those of TestCaching, one to another
\* endpoint with the same input, and one body that fails validation
ClientRequests ==
    {[endpoint |-> "schwarzschild", input |-> CacheHitData],
     [endpoint |-> "schwarzschild", input |-> CacheMissData],
     [endpoint |-> "kerr", input |-> [mass |-> 1, radius |-> 10, theta |-> "pi/2", angular_momentum |-> 0]],
     [endpoint |-> "reissner-nordstrom", input |-> [mass |-> 1, radius |-> 10, theta |-> "pi/2", charge |-> 0]],
     [endpoint |-> "schwarzschild", input |-> [mass |-> 1, radius |-> 2, theta |-> "pi/2"]],
     [endpoint |-> "kerr", input |-> [mass |-> 1, radius |-> 10, theta |-> "pi/2", angular_momentum |-> 2]],
     [endpoint |-> "schwarzschild", input |-> [mass |-> 0, radius |-> 10, theta |-> "pi/2"]]}

\* response = client.post(...): the client receives the response and keeps
\* it, with the tensor calls the mock has seen during the request
Receive ==
    /\ http_pc = "responded"
    /\ log' = Append(log, [request |-> http_req, response |-> http_resp, calls |-> calls])
    /\ http_pc' = "idle"
    /\ http_req' = NoCall
    /\ http_resp' = NoResponse
    /\ cache_ops' = <<>>
    /\ served' = served + 1
    /\ UNCHANGED <<coreVars, authVars>>

NextClient ==
    \/ \E req \in ClientRequests : Request(req.endpoint, req.input)
    \/ Validate
    \/ CacheKeyError
    \/ Receive

SpecClient == Init /\ [][NextClient]_vars

----------------------------------------------------------------------------
(* The auth endpoints: each request runs _check_rate_limit on a threadpool  *)
(* worker, so the statements of two requests interleave                     *)

otherVars == <<coreVars, httpVars, served, log, serviceVars>>

\* client_ip = request.client.host, then the call of _check_rate_limit
AuthRequest(w, ip, endpoint) ==
    /\ workers[w].pc = "idle"
    /\ logins < MaxLogins
    /\ workers' = [workers EXCEPT ![w] = [pc |-> "time", ip |-> ip, endpoint |-> endpoint]]
    /\ logins' = logins + 1
    /\ UNCHANGED <<login_attempts, now, admitted, otherVars>>

\* line 25: now = time.time()
ReadClock(w) ==
    /\ workers[w].pc = "time"
    /\ workers' = [workers EXCEPT ![w] =
                      [pc |-> "window", ip |-> @.ip, endpoint |-> @.endpoint, now |-> now]]
    /\ UNCHANGED <<login_attempts, now, admitted, logins, otherVars>>

\* line 28: if _login_attempts[ip_address]["reset_at"] < now
CheckWindow(w) ==
    /\ workers[w].pc = "window"
    /\ workers' = [workers EXCEPT ![w].pc =
                      IF login_attempts[workers[w].ip].reset_at < workers[w].now
                      THEN "reset" ELSE "limit"]
    /\ UNCHANGED <<login_attempts, now, admitted, logins, otherVars>>

\* line 29: a new dict {"count": 0, "reset_at": now + _rate_limit_window}
ResetWindow(w) ==
    /\ workers[w].pc = "reset"
    /\ login_attempts' = [login_attempts EXCEPT ![workers[w].ip] =
                             [id |-> @.id + 1, count |-> 0,
                              reset_at |-> workers[w].now + rate_limit_window]]
    /\ admitted' = [admitted EXCEPT ![workers[w].ip] = 0]
    /\ workers' = [workers EXCEPT ![w].pc = "limit"]
    /\ UNCHANGED <<now, logins, otherVars>>

\* lines 32-33 and 52-56: over the limit, return False and the endpoint
\* raises HTTPException(429)
CheckLimit(w) ==
    /\ workers[w].pc = "limit"
    /\ workers' = [workers EXCEPT ![w] =
                      IF login_attempts[workers[w].ip].count >= max_attempts
                      THEN [pc |-> "responded", ip |-> @.ip, endpoint |-> @.endpoint,
                            allowed |-> FALSE, status |-> 429]
                      ELSE [pc |-> "load", ip |-> @.ip, endpoint |-> @.endpoint]]
    /\ UNCHANGED <<login_attempts, now, admitted, logins, otherVars>>

\* line 36, "+=", first half: the dict and its count are fetched
LoadCount(w) ==
    /\ workers[w].pc = "load"
    /\ workers' = [workers EXCEPT ![w] =
                      [pc |-> "store", ip |-> @.ip, endpoint |-> @.endpoint,
                       d |-> login_attempts[workers[w].ip].id,
                       count |-> login_attempts[workers[w].ip].count]]
    /\ UNCHANGED <<login_attempts, now, admitted, logins, otherVars>>

\* line 36, second half, and line 37: count + 1 is stored into the dict that
\* was fetched (a dict replaced in the meantime is no longer in the table),
\* return True
StoreCount(w) ==
    /\ workers[w].pc = "store"
    /\ login_attempts' =
            IF login_attempts[workers[w].ip].id = workers[w].d
            THEN [login_attempts EXCEPT ![workers[w].ip].count = workers[w].count + 1]
            ELSE login_attempts
    /\ admitted' = [admitted EXCEPT ![workers[w].ip] = @ + 1]
    /\ workers' = [workers EXCEPT ![w] =
                      [pc |-> "credentials", ip |-> @.ip, endpoint |-> @.endpoint,
                       allowed |-> TRUE]]
    /\ UNCHANGED <<now, logins, otherVars>>

\* the rest of the endpoint: each of the three endpoints looks the user up
\* with db.query(User) before it does anything else, and User is bound to
\* the pydantic model (models/user.py line 50), so the query raises and the
\* server answers 500
CheckCredentials(w) ==
    /\ workers[w].pc = "credentials"
    /\ workers' = [workers EXCEPT ![w] =
                      [pc |-> "responded", ip |-> @.ip, endpoint |-> @.endpoint,
                       allowed |-> TRUE, status |-> 500]]
    /\ UNCHANGED <<login_attempts, now, admitted, logins, otherVars>>

\* the response is sent and the worker is free again
AuthRespond(w) ==
    /\ workers[w].pc = "responded"
    /\ workers' = [workers EXCEPT ![w] = Idle]
    /\ UNCHANGED <<login_attempts, now, admitted, logins, otherVars>>

\* time passes
Tick ==
    /\ now < MaxTicks * TickSeconds
    /\ now' = now + TickSeconds
    /\ UNCHANGED <<login_attempts, workers, admitted, logins, otherVars>>

NextAuth ==
    \/ \E w \in Workers : \E ip \in ClientIPs : \E endpoint \in AuthEndpoints :
            AuthRequest(w, ip, endpoint)
    \/ \E w \in Workers : ReadClock(w)
    \/ \E w \in Workers : CheckWindow(w)
    \/ \E w \in Workers : ResetWindow(w)
    \/ \E w \in Workers : CheckLimit(w)
    \/ \E w \in Workers : LoadCount(w)
    \/ \E w \in Workers : StoreCount(w)
    \/ \E w \in Workers : CheckCredentials(w)
    \/ \E w \in Workers : AuthRespond(w)
    \/ Tick

SpecAuth == Init /\ [][NextAuth]_vars

----------------------------------------------------------------------------
(* app/core/security.py: create_access_token *)

ACCESS_TOKEN_EXPIRE_MINUTES == 30

\* the expires_delta arguments: None, or a timedelta of so many seconds
Deltas == {None, [seconds |-> TickSeconds], [seconds |-> 1800]}

\* lines 33-36: the lifetime in seconds
ExpiresSeconds(expires_delta) ==
    IF expires_delta = None THEN ACCESS_TOKEN_EXPIRE_MINUTES * 60 ELSE expires_delta.seconds

\* _create_token_cached, lines 16-18: the claims jwt.encode signs
NewToken(subject, expires_delta_seconds) ==
    [sub |-> subject, exp |-> now + expires_delta_seconds]

\* the entries the lru_cache holds for the arguments (maxsize 128 is never
\* reached by the four argument tuples of the model)
CachedTokens(subject, expires_delta_seconds) ==
    {e \in token_cache : e.subject = subject /\ e.seconds = expires_delta_seconds}

\* the token create_access_token returns and the lru_cache it leaves: the
\* cache answers a repeated (subject, seconds) with the token it built the
\* first time
CreatedToken(subject, expires_delta) ==
    LET seconds == ExpiresSeconds(expires_delta)
        subject_str == Str(subject)
        hits == CachedTokens(subject_str, seconds)
        token == IF hits = {} THEN NewToken(subject_str, seconds)
                 ELSE (CHOOSE e \in hits : TRUE).token
    IN  [token |-> token,
         cache |-> token_cache
                    \cup {[subject |-> subject_str, seconds |-> seconds, token |-> token]}]

\* create_access_token(subject, expires_delta), called as login does at
\* auth.py 75-82
create_access_token(subject, expires_delta) ==
    LET created == CreatedToken(subject, expires_delta)
        token == created.token
    IN  /\ token_cache' = created.cache
        /\ answer' = [op |-> "create_access_token", subject |-> subject,
                      expires_delta |-> expires_delta, at |-> now, value |-> token]
        /\ UNCHANGED <<engineVars, limiterVars, now, userVars, wrapperVars, calculationVars>>

NextToken ==
    \/ \E subject \in UserIds : \E expires_delta \in Deltas :
            create_access_token(subject, expires_delta)
    \/ Tick

SpecToken == Init /\ [][NextToken]_vars

----------------------------------------------------------------------------
(* app/models/user.py, app/api/deps.py: the current user *)

\* models/user.py binds the name User twice, to the SQLAlchemy model (line
\* 9) and then to the pydantic model (line 50); "from ..models.user import
\* User" in deps.py and auth.py gets the last binding
UserBindings == <<"sqlalchemy", "pydantic">>
User == UserBindings[Len(UserBindings)]

\* the first row matching, NoResultFound when there is none:
\* db.query(...).filter(...).one() on the mapped class
QueryUserOne(rows, column, value) ==
    LET found == {id \in UserIds : rows[id].exists /\ rows[id][column] = value}
    IN  IF found = {} THEN Raised("NoResultFound")
        ELSE Returned(rows[CHOOSE id \in found : TRUE])

\* db.query(User).filter(User.<column> == value).first(): the pydantic class
\* is no mapped entity and has no column attributes, so the expression raises
\* before a row is read; with the mapped class it is the first matching row
QueryUser(rows, column, value) ==
    IF User # "sqlalchemy" THEN Raised("ArgumentError")
    ELSE LET found == {id \in UserIds : rows[id].exists /\ rows[id][column] = value}
         IN  Returned(IF found = {} THEN None ELSE rows[CHOOSE id \in found : TRUE])

\* raise HTTPException(status_code, detail)
HTTPException(status_code, detail) == [status |-> status_code, detail |-> detail]
\* any other exception leaves the endpoint and the server answers 500
Unhandled(exc) == [status |-> 500, detail |-> "Internal Server Error", exc |-> exc]
\* the dependency returns the user to the endpoint
Authenticated(user) == [status |-> 200, user |-> user]

\* the bearer tokens a client can send: signed with SECRET_KEY or not, for
\* either user, expiring early or late
Bearers ==
    {[sub |-> Str(id), exp |-> exp, signed |-> signed] :
        id \in UserIds, exp \in {2 * TickSeconds, 1800 + TickSeconds}, signed \in BOOLEAN}

\* jwt.decode(token, SECRET_KEY, algorithms=[ALGORITHM]): a bad signature and
\* an expired token raise a JWTError
jwt_decode(token) ==
    IF token.signed /\ token.exp >= now
    THEN Returned([sub |-> token.sub, exp |-> token.exp])
    ELSE Raised("JWTError")

cache_ttl == 300

get_cached_user(user_id) ==
    IF user_cache[user_id].cached /\ now - user_cache[user_id].timestamp < cache_ttl
    THEN user_cache[user_id].user
    ELSE None

cache_user(user_id, user_dict) ==
    [user_cache EXCEPT ![user_id] = [cached |-> TRUE, user |-> user_dict, timestamp |-> now]]

\* the response of the dependency and the cache it leaves
get_current_user(token) ==
    LET payload == jwt_decode(token)
        unauthorized == HTTPException(401, "Could not validate credentials")
    IN  IF payload.exc # "none" THEN [result |-> unauthorized, cache |-> user_cache]
        ELSE LET user_id == IntOf(payload.value.sub)
                 cached_user == get_cached_user(user_id)
                 user == QueryUser(users, "id", user_id)
             IN  CASE cached_user # None ->
                        \* user = User(): the pydantic model raises
                        \* ValidationError, which the except clause catches
                        [result |-> IF User = "pydantic" THEN unauthorized
                                    ELSE Authenticated(cached_user),
                         cache |-> user_cache]
                   [] cached_user = None /\ user.exc # "none" ->
                        [result |-> Unhandled(user.exc), cache |-> user_cache]
                   [] cached_user = None /\ user.exc = "none" /\ user.value = None ->
                        [result |-> HTTPException(404, "User not found"), cache |-> user_cache]
                   [] OTHER ->
                        IF ~user.value.is_active
                        THEN [result |-> HTTPException(400, "Inactive user"),
                              cache |-> user_cache]
                        ELSE [result |-> Authenticated(user.value),
                              cache |-> cache_user(user_id, user.value)]

get_current_active_user(current_user) ==
    CASE current_user.status # 200 -> current_user
      [] current_user.status = 200 /\ ~current_user.user.is_active ->
            HTTPException(400, "Inactive user")
      [] OTHER -> current_user

\* a request to an endpoint that depends on get_current_active_user; record
\* is the row of the token's user when the request is answered
CurrentActiveUser(token) ==
    LET current == get_current_user(token)
    IN  /\ user_cache' = current.cache
        /\ answer' = [op |-> "get_current_active_user", token |-> token, at |-> now,
                      record |-> users[IntOf(token.sub)],
                      response |-> get_current_active_user(current.result)]
        /\ UNCHANGED <<engineVars, limiterVars, now, tokenVars, users, wrapperVars,
                       calculationVars>>

\* the row of a user is deactivated in the database
Deactivate(id) ==
    /\ users[id].exists
    /\ users[id].is_active
    /\ users' = [users EXCEPT ![id].is_active = FALSE]
    /\ UNCHANGED <<engineVars, limiterVars, now, tokenVars, user_cache, answer, wrapperVars,
                   calculationVars>>

\* the row of a user is deleted from the database
Remove(id) ==
    /\ users[id].exists
    /\ users' = [users EXCEPT ![id] = NoRow]
    /\ UNCHANGED <<engineVars, limiterVars, now, tokenVars, user_cache, answer, wrapperVars,
                   calculationVars>>

----------------------------------------------------------------------------
(* app/core/security.py, app/api/deps.py, app/api/endpoints/auth.py:
   Firebase tokens and the password reset *)

\* the Firebase ID tokens a client can send: issued by Firebase for one of
\* the two users, or forged
FirebaseTokens ==
    {[valid |-> TRUE, uid |-> "firebase-uid-123"], [valid |-> TRUE, uid |-> "firebase-uid-2"],
     [valid |-> FALSE]}

\* the Authorization headers of a request: absent, or a scheme and a token
Authorizations ==
    {None} \cup {[scheme |-> scheme, token |-> token] :
                    scheme \in {"Bearer ", "Basic "}, token \in FirebaseTokens}

\* the placeholder returns the same uid for every token
verify_firebase_token(token) == "firebase-uid-123"

\* "if not firebase_uid": a str is falsy when it is empty
Truthy(value) == value # ""

\* the rest of login_firebase and get_firebase_user after the token check
FirebaseUser(firebase_uid, unauthorized) ==
    LET user == QueryUser(users, "firebase_uid", firebase_uid)
    IN  CASE ~Truthy(firebase_uid) -> unauthorized
          [] Truthy(firebase_uid) /\ user.exc # "none" -> Unhandled(user.exc)
          [] Truthy(firebase_uid) /\ user.exc = "none" /\ user.value = None ->
                HTTPException(404, "User not found")
          [] OTHER -> IF ~user.value.is_active THEN HTTPException(400, "Inactive user")
                      ELSE Authenticated(user.value)

\* a request to an endpoint that depends on get_firebase_user
get_firebase_user(authorization) ==
    LET unauthorized == HTTPException(401, "Invalid authentication credentials")
        bearer == authorization # None /\ authorization.scheme = "Bearer "
        firebase_uid == verify_firebase_token(authorization.token)
    IN  /\ answer' = [op |-> "get_firebase_user", authorization |-> authorization,
                      verified |-> bearer /\ Truthy(firebase_uid),
                      response |-> IF ~bearer THEN unauthorized
                                   ELSE FirebaseUser(firebase_uid, unauthorized)]
        /\ UNCHANGED <<engineVars, limiterVars, now, tokenVars, userVars, wrapperVars,
                       calculationVars>>

\* _check_rate_limit run by one worker without interruption: whether the
\* request is allowed, and the table it leaves
check_rate_limit(attempts, ip_address, t) ==
    LET entry == IF attempts[ip_address].reset_at < t
                 THEN [id |-> attempts[ip_address].id + 1, count |-> 0,
                       reset_at |-> t + rate_limit_window]
                 ELSE attempts[ip_address]
    IN  IF entry.count >= max_attempts
        THEN [allowed |-> FALSE, attempts |-> [attempts EXCEPT ![ip_address] = entry]]
        ELSE [allowed |-> TRUE,
              attempts |-> [attempts EXCEPT ![ip_address] = [entry EXCEPT !.count = @ + 1]]]

\* POST /firebase-login
login_firebase(client_ip, firebase_token) ==
    LET limit == check_rate_limit(login_attempts, client_ip, now)
        firebase_uid == verify_firebase_token(firebase_token)
        user == FirebaseUser(firebase_uid, HTTPException(401, "Invalid Firebase token"))
        created == CreatedToken(user.user.id, [seconds |-> ACCESS_TOKEN_EXPIRE_MINUTES * 60])
        issued == limit.allowed /\ user.status = 200
    IN  /\ login_attempts' = limit.attempts
        /\ token_cache' = IF issued THEN created.cache ELSE token_cache
        /\ answer' = [op |-> "login_firebase", ip |-> client_ip,
                      firebase_token |-> firebase_token,
                      verified |-> limit.allowed /\ Truthy(firebase_uid),
                      response |->
                          CASE ~limit.allowed ->
                                 HTTPException(429, "Too many login attempts. Please try again later.")
                            [] limit.allowed /\ user.status # 200 -> user
                            [] OTHER -> [status |-> 200, access_token |-> created.token,
                                         token_type |-> "bearer"]]
        /\ UNCHANGED <<engineVars, workers, admitted, logins, now, userVars, wrapperVars,
                       calculationVars>>

\* the e-mail addresses a client can ask a reset for
Emails == {"user1@example.com", "user2@example.com", "nobody@example.com"}

\* POST /reset-password on the rows of the users table: the response and the
\* rate-limit table it leaves
ResetPassword(attempts, t, client_ip, email, rows) ==
    LET limit == check_rate_limit(attempts, client_ip, t)
        user == QueryUser(rows, "email", email)
    IN  [attempts |-> limit.attempts,
         response |->
            CASE ~limit.allowed ->
                   HTTPException(429, "Too many password reset attempts. Please try again later.")
              [] limit.allowed /\ user.exc # "none" -> Unhandled(user.exc)
              [] limit.allowed /\ user.exc = "none" /\ user.value = None ->
                   [status |-> 200, msg |-> "Password reset email sent"]
              [] OTHER -> [status |-> 200, msg |-> "Password reset email sent"]]

reset_password(client_ip, email) ==
    LET reset == ResetPassword(login_attempts, now, client_ip, email, users)
    IN  /\ login_attempts' = reset.attempts
        /\ answer' = [op |-> "reset_password", ip |-> client_ip, email |-> email,
                      at |-> now, before |-> login_attempts, rows |-> users,
                      after |-> reset.attempts, response |-> reset.response]
        /\ UNCHANGED <<engineVars, workers, admitted, logins, now, tokenVars, userVars,
                       wrapperVars, calculationVars>>

NextUsers ==
    \/ \E token \in Bearers : CurrentActiveUser(token)
    \/ \E authorization \in Authorizations : get_firebase_user(authorization)
    \/ \E ip \in ClientIPs : \E firebase_token \in FirebaseTokens :
            login_firebase(ip, firebase_token)
    \/ \E ip \in ClientIPs : \E email \in Emails : reset_password(ip, email)
    \/ \E id \in UserIds : Deactivate(id)
    \/ \E id \in UserIds : Remove(id)
    \/ Tick

SpecUsers == Init /\ [][NextUsers]_vars

----------------------------------------------------------------------------
(* app/core/cache.py: one call of a function decorated with cache_response *)

\* the decorated functions: the three endpoints, which FastAPI calls with a
\* pydantic model, and a function whose keyword arguments json.dumps encodes
PlainFunc == "plain"
WrappedFuncs == Endpoints \cup {PlainFunc}
\* the values of the one argument the calls differ in
WrappedArgs == {1, 2, 3}

WrappedName(func) == IF func = PlainFunc THEN "plain" ELSE FuncName(func)

\* the keyword arguments of a call
WrappedKwargs(func, n) ==
    IF func = PlainFunc THEN [n |-> [class |-> "int", value |-> n]]
    ELSE Kwargs([endpoint |-> func, input |-> [mass |-> n, radius |-> 3 * n, theta |-> "pi/2"]])

\* what the function returns: the endpoints a MetricResponse object (or a
\* JSONResponse), the plain function a dict
WrappedResult(func, kwargs) ==
    IF func = PlainFunc THEN [class |-> "dict", of |-> kwargs]
    ELSE [class |-> "MetricResponse", of |-> kwargs]

\* json.dumps(result) and json.loads(cached_result)
json_dumps(value) == IF JsonSerializable(value) THEN Returned([json |-> value]) ELSE Raised("TypeError")
json_loads(text) == text.json

\* redis_client.get(cache_key): None when the key is not stored
RedisGet(key) ==
    LET hits == {k \in 1 .. Len(redis) : redis[k].key = key}
    IN  IF hits = {} THEN None ELSE redis[CHOOSE k \in hits : TRUE].value

\* redis_client.setex(cache_key, ttl, value)
RedisSetex(key, value) ==
    LET NotKey(item) == item.key # key
    IN  Append(SelectSeq(redis, NotKey), [key |-> key, value |-> value])

\* wrapper(*args, **kwargs) is called
WrapperCall(func, n) ==
    /\ wrapped.pc = "idle"
    /\ wrapped' = [pc |-> "key", func |-> func, kwargs |-> WrappedKwargs(func, n),
                   executions |-> 0]
    /\ UNCHANGED <<engineVars, limiterVars, now, tokenVars, userVars, answer, redis,
                   calculationVars>>

\* line 37: cache_key = generate_cache_key(func.__name__, *args, **kwargs),
\* outside the try block
WrapperKey ==
    /\ wrapped.pc = "key"
    /\ LET key == generate_cache_key(WrappedName(wrapped.func), wrapped.kwargs)
       IN  wrapped' = IF key.exc # "none"
                      THEN [wrapped EXCEPT !.pc = "done"] @@ [outcome |-> Raised(key.exc)]
                      ELSE [wrapped EXCEPT !.pc = "get"] @@ [cache_key |-> key.value]
    /\ UNCHANGED <<engineVars, limiterVars, now, tokenVars, userVars, answer, redis,
                   calculationVars>>

\* lines 41-43: the key is looked up; a stored value is decoded and returned
WrapperGet ==
    /\ wrapped.pc = "get"
    /\ LET cached_result == RedisGet(wrapped.cache_key)
       IN  wrapped' = IF cached_result # None
                      THEN [wrapped EXCEPT !.pc = "done"]
                            @@ [outcome |-> Returned(json_loads(cached_result)),
                                cached |-> json_loads(cached_result)]
                      ELSE [wrapped EXCEPT !.pc = "func"]
    /\ UNCHANGED <<engineVars, limiterVars, now, tokenVars, userVars, answer, redis,
                   calculationVars>>

\* line 41 or line 49: the Redis call raises redis.RedisError
WrapperRedisError ==
    /\ wrapped.pc \in {"get", "setex"}
    /\ wrapped' = [wrapped EXCEPT !.pc = "except"]
    /\ UNCHANGED <<engineVars, limiterVars, now, tokenVars, userVars, answer, redis,
                   calculationVars>>

\* line 46: result = await func(*args, **kwargs)
WrapperExecute ==
    /\ wrapped.pc = "func"
    /\ wrapped' = [wrapped EXCEPT !.pc = "dumps", !.executions = @ + 1]
                    @@ [result |-> WrappedResult(wrapped.func, wrapped.kwargs)]
    /\ UNCHANGED <<engineVars, limiterVars, now, tokenVars, userVars, answer, redis,
                   calculationVars>>

\* line 52: json.dumps(result), the argument of setex; its TypeError is not
\* a RedisError and leaves the wrapper
WrapperDumps ==
    /\ wrapped.pc = "dumps"
    /\ LET text == json_dumps(wrapped.result)
       IN  wrapped' = IF text.exc # "none"
                      THEN [wrapped EXCEPT !.pc = "done"] @@ [outcome |-> Raised(text.exc)]
                      ELSE [wrapped EXCEPT !.pc = "setex"] @@ [text |-> text.value]
    /\ UNCHANGED <<engineVars, limiterVars, now, tokenVars, userVars, answer, redis,
                   calculationVars>>

\* lines 49-55: the value is stored and the result returned
WrapperSetex ==
    /\ wrapped.pc = "setex"
    /\ redis' = RedisSetex(wrapped.cache_key, wrapped.text)
    /\ wrapped' = [wrapped EXCEPT !.pc = "done"] @@ [outcome |-> Returned(wrapped.result)]
    /\ UNCHANGED <<engineVars, limiterVars, now, tokenVars, userVars, answer, calculationVars>>

\* lines 57-59: except redis.RedisError: return await func(*args, **kwargs)
WrapperExcept ==
    /\ wrapped.pc = "except"
    /\ wrapped' = [wrapped EXCEPT !.pc = "done", !.executions = @ + 1]
                    @@ [outcome |-> Returned(WrappedResult(wrapped.func, wrapped.kwargs))]
    /\ UNCHANGED <<engineVars, limiterVars, now, tokenVars, userVars, answer, redis,
                   calculationVars>>

\* the call is over
WrapperLeave ==
    /\ wrapped.pc = "done"
    /\ wrapped' = NotCalled
    /\ UNCHANGED <<engineVars, limiterVars, now, tokenVars, userVars, answer, redis,
                   calculationVars>>

NextWrapper ==
    \/ \E func \in WrappedFuncs : \E n \in WrappedArgs : WrapperCall(func, n)
    \/ WrapperKey
    \/ WrapperGet
    \/ WrapperRedisError
    \/ WrapperExecute
    \/ WrapperDumps
    \/ WrapperSetex
    \/ WrapperExcept
    \/ WrapperLeave

SpecWrapper == Init /\ [][NextWrapper]_vars

----------------------------------------------------------------------------
(* build_installer: app/models/calculation.py, app/api/endpoints/calculations.py *)

\* models/calculation.py binds the name Calculation twice, to the SQLAlchemy
\* model (line 37) and then to the pydantic model (line 88);
\* calculations.py imports the last binding
CalculationBindings == <<"sqlalchemy", "pydantic">>
Calculation == CalculationBindings[Len(CalculationBindings)]

\* db.query(Calculation).filter(Calculation.id == calculation_id).first():
\* raises with the pydantic class, the row or None with the mapped class
QueryCalculation(rows, calculation_id) ==
    IF Calculation # "sqlalchemy" THEN Raised("ArgumentError")
    ELSE Returned(IF rows[calculation_id].exists THEN rows[calculation_id] ELSE None)

\* the users get_current_active_user hands to the endpoints
CurrentUsers == {InitialUsers[id] : id \in UserIds}

CalculationTypes == {"schwarzschild", "flrw"}
CalculationInputs == {[mass |-> 1], [mass |-> 2]}

\* results a client sends that no computation produced
ForgedResults == [type |-> "schwarzschild", computed_from |-> [mass |-> 1000]]

\* the bodies of POST /: CalculationCreate
Creations ==
    [type : CalculationTypes, description : {"none"}, inputs : CalculationInputs,
     is_public : BOOLEAN]

\* the bodies of PUT /{calculation_id}: a CalculationUpdate, each field set by
\* the client or left unset
Unset == [set |-> FALSE]
Set(value) == [set |-> TRUE, value |-> value]
Updates ==
    [inputs : {Unset} \cup {Set(inputs) : inputs \in CalculationInputs},
     results : {Unset, Set(ForgedResults)},
     is_public : {Unset} \cup {Set(flag) : flag \in BOOLEAN}]

\* calculation_in.dict(exclude_unset=True): the fields the client has set
UpdateData(calculation_in) == {field \in DOMAIN calculation_in : calculation_in[field].set}

NotFound == HTTPException(404, "Calculation not found")
Forbidden == HTTPException(403, "Not enough permissions")
Found(calculation) == [status |-> 200, calculation |-> calculation]

\* lines 81-93 and 160-175: the results are recomputed from the stored type
\* and inputs
Recalculated(calculation) ==
    [calculation EXCEPT !.results = perform_calculation(calculation.type, calculation.inputs)]

\* lines 155-157: setattr(calculation, field, update_data[field])
WithFields(calculation, calculation_in) ==
    [field \in DOMAIN calculation |->
        IF field \in UpdateData(calculation_in) THEN calculation_in[field].value
        ELSE calculation[field]]

\* POST /: the response and the table
CreateCalculation(rows, calculation_in, current_user) ==
    LET free == {id \in CalculationIds : ~rows[id].exists}
        id == CHOOSE i \in free : \A j \in free : i <= j
        calculation == Recalculated(
                          [exists |-> TRUE, id |-> id, user_id |-> current_user.id,
                           type |-> calculation_in.type,
                           description |-> calculation_in.description,
                           inputs |-> calculation_in.inputs, results |-> None,
                           is_public |-> calculation_in.is_public])
    IN  \* Calculation(user_id=..., ...) of the pydantic model lacks id and
        \* created_at: ValidationError, before the try block
        IF Calculation # "sqlalchemy"
        THEN [response |-> Unhandled("ValidationError"), rows |-> rows]
        ELSE [response |-> Found(calculation), rows |-> [rows EXCEPT ![id] = calculation]]

\* GET /{calculation_id}
ReadCalculation(rows, calculation_id, current_user) ==
    LET calculation == QueryCalculation(rows, calculation_id)
    IN  CASE calculation.exc # "none" -> Unhandled(calculation.exc)
          [] calculation.exc = "none" /\ calculation.value = None -> NotFound
          [] OTHER ->
                IF /\ calculation.value.user_id # current_user.id
                   /\ ~calculation.value.is_public
                   /\ ~current_user.is_admin
                THEN Forbidden
                ELSE Found(calculation.value)

\* PUT /{calculation_id}
UpdateCalculation(rows, calculation_id, calculation_in, current_user) ==
    LET calculation == QueryCalculation(rows, calculation_id)
        updated == IF "inputs" \in UpdateData(calculation_in)
                   THEN Recalculated(WithFields(calculation.value, calculation_in))
                   ELSE WithFields(calculation.value, calculation_in)
    IN  CASE calculation.exc # "none" ->
                [response |-> Unhandled(calculation.exc), rows |-> rows]
          [] calculation.exc = "none" /\ calculation.value = None ->
                [response |-> NotFound, rows |-> rows]
          [] OTHER ->
                IF calculation.value.user_id # current_user.id /\ ~current_user.is_admin
                THEN [response |-> Forbidden, rows |-> rows]
                ELSE [response |-> Found(updated),
                      rows |-> [rows EXCEPT ![calculation_id] = updated]]

\* DELETE /{calculation_id}
DeleteCalculation(rows, calculation_id, current_user) ==
    LET calculation == QueryCalculation(rows, calculation_id)
    IN  CASE calculation.exc # "none" ->
                [response |-> Unhandled(calculation.exc), rows |-> rows]
          [] calculation.exc = "none" /\ calculation.value = None ->
                [response |-> NotFound, rows |-> rows]
          [] OTHER ->
                IF calculation.value.user_id # current_user.id /\ ~current_user.is_admin
                THEN [response |-> Forbidden, rows |-> rows]
                ELSE [response |-> Found(calculation.value),
                      rows |-> [rows EXCEPT ![calculation_id] = NoRow]]

\* the table of the model has room for CalculationIds only
create_calculation(calculation_in, current_user) ==
    LET created == CreateCalculation(calculations, calculation_in, current_user)
    IN  /\ \E id \in CalculationIds : ~calculations[id].exists
        /\ calculations' = created.rows
        /\ answer' = [op |-> "create_calculation", calculation_in |-> calculation_in,
                      current_user |-> current_user, before |-> calculations,
                      after |-> created.rows, response |-> created.response]
        /\ UNCHANGED <<engineVars, limiterVars, now, tokenVars, userVars, wrapperVars>>

read_calculation(calculation_id, current_user) ==
    /\ answer' = [op |-> "read_calculation", calculation_id |-> calculation_id,
                  current_user |-> current_user, before |-> calculations,
                  after |-> calculations,
                  response |-> ReadCalculation(calculations, calculation_id, current_user)]
    /\ UNCHANGED <<engineVars, limiterVars, now, tokenVars, userVars, wrapperVars,
                   calculationVars>>

update_calculation(calculation_id, calculation_in, current_user) ==
    LET updated == UpdateCalculation(calculations, calculation_id, calculation_in, current_user)
    IN  /\ calculations' = updated.rows
        /\ answer' = [op |-> "update_calculation", calculation_id |-> calculation_id,
                      calculation_in |-> calculation_in, current_user |-> current_user,
                      before |-> calculations, after |-> updated.rows,
                      response |-> updated.response]
        /\ UNCHANGED <<engineVars, limiterVars, now, tokenVars, userVars, wrapperVars>>

delete_calculation(calculation_id, current_user) ==
    LET deleted == DeleteCalculation(calculations, calculation_id, current_user)
    IN  /\ calculations' = deleted.rows
        /\ answer' = [op |-> "delete_calculation", calculation_id |-> calculation_id,
                      current_user |-> current_user, before |-> calculations,
                      after |-> deleted.rows, response |-> deleted.response]
        /\ UNCHANGED <<engineVars, limiterVars, now, tokenVars, userVars, wrapperVars>>

NextCalculations ==
    \/ \E calculation_in \in Creations : \E current_user \in CurrentUsers :
            create_calculation(calculation_in, current_user)
    \/ \E id \in CalculationIds : \E current_user \in CurrentUsers :
            read_calculation(id, current_user)
    \/ \E id \in CalculationIds : \E calculation_in \in Updates :
            \E current_user \in CurrentUsers : update_calculation(id, calculation_in, current_user)
    \/ \E id \in CalculationIds : \E current_user \in CurrentUsers :
            delete_calculation(id, current_user)

SpecCalculations == Init /\ [][NextCalculations]_vars

----------------------------------------------------------------------------
(* Properties of the numeric pipeline and of the endpoints *)

\* the body has returned a MetricResponse
Succeeded == stage = "returned" /\ response.status = 200

\* calculate_christoffel_symbols has just returned its dictionary
ChristoffelReturned == stage = "riemann"

\* calculate_riemann_tensor has just returned its dictionary
RiemannReturned == stage = "ricci"

\* the evaluation point lies outside the outer horizon
OutsideHorizon == RLt(response.event_horizon, Int2Rat(call.input.radius))

\* a component of a sparse dict, an absent key counting as 0
Component(dict, key) == IF HasKey(dict, key) THEN Get(dict, key) ELSE Zero

\* C1: vacuum property: for Schwarzschild and Kerr at a valid point outside
\* the horizon every component of the returned Ricci tensor and the Ricci
\* scalar are within 1e-10 of zero.
C1_VacuumProperty ==
    (Succeeded /\ call.endpoint \in {"schwarzschild", "kerr"} /\ OutsideHorizon)
        => /\ \A v \in Values(response.ricci_tensor) : WithinTol(v)
           /\ WithinTol(response.ricci_scalar)

\* C2: traceless-source property: for Reissner-Nordstrom at a valid point
\* outside the outer horizon the Ricci scalar is within 1e-10 of zero.
C2_TracelessSource ==
    (Succeeded /\ call.endpoint = "reissner-nordstrom" /\ OutsideHorizon)
        => WithinTol(response.ricci_scalar)

\* C3: Christoffel symmetry: in every dictionary calculate_christoffel_symbols
\* returns, the component for (mu, alpha, beta) equals the component for
\* (mu, beta, alpha), an absent key counting as 0.
C3_ChristoffelSymmetry ==
    ChristoffelReturned =>
        \A idx \in Idx3 :
            Component(christoffel, ChristoffelKey(idx))
                = Component(christoffel, ChristoffelKey(<<idx[1], idx[3], idx[2]>>))

\* C4: Riemann antisymmetry: in every dictionary calculate_riemann_tensor
\* returns, the component for (rho, sigma, mu, nu) is minus the component for
\* (rho, sigma, nu, mu), an absent key counting as 0.
C4_RiemannAntisymmetry ==
    RiemannReturned =>
        \A idx \in Idx4 :
            Component(riemann, RiemannKey(idx))
                = RNeg(Component(riemann, RiemannKey(<<idx[1], idx[2], idx[4], idx[3]>>)))

\* C5: the loops of calculate_christoffel_symbols compute the formula of its
\* docstring from g_inv and the derivative matrices, and the dictionary holds
\* exactly the values above the tolerance.
C5_DocstringFormula ==
    [][stage = "loops" =>
          christoffel' = Sparsify(DocstringArray(frame.g_inv, frame.d), Seq3, ChristoffelKeys)]_vars

\* the coordinate names the test suite uses in its keys
CoordinateName(i) ==
    CASE i = 0 -> <<"t">>
      [] i = 1 -> <<"r">>
      [] i = 2 -> <<"t", "h", "e", "t", "a">>
      [] i = 3 -> <<"p", "h", "i">>

\* the key "Gamma_<mu>_<alpha>_<beta>" of test_schwarzschild_christoffel_symbols
TestKey(mu, alpha, beta) ==
    <<"G", "a", "m", "m", "a", "_">> \o CoordinateName(mu) \o <<"_">>
        \o CoordinateName(alpha) \o <<"_">> \o CoordinateName(beta)

\* the components the test expects of the Schwarzschild connection
SchwarzschildExpected(input_data) ==
    LET M == Int2Rat(input_data.mass)
        r == Int2Rat(input_data.radius)
        h == RSub(One, RDiv(RScale(2, M), r))
    IN  {[key |-> TestKey(0, 0, 1), value |-> RDiv(M, RMul(RSq(r), h))],
         [key |-> TestKey(1, 0, 0), value |-> RDiv(RMul(M, h), RSq(r))],
         [key |-> TestKey(1, 1, 1), value |-> RNeg(RDiv(M, RMul(RSq(r), h)))],
         [key |-> TestKey(2, 1, 2), value |-> RDiv(One, r)],
         [key |-> TestKey(3, 1, 3), value |-> RDiv(One, r)]}

\* C6: for Schwarzschild outside the horizon the returned dictionary holds
\* Gamma^t_tr, Gamma^r_tt, Gamma^r_rr, Gamma^theta_r theta and Gamma^phi_r phi
\* with their textbook values within 1e-10, under the keys Gamma_t_t_r,
\* Gamma_r_t_t, Gamma_r_r_r, Gamma_theta_r_theta, Gamma_phi_r_phi.
C6_SchwarzschildComponents ==
    (ChristoffelReturned /\ call.endpoint = "schwarzschild"
        /\ call.input.radius > 2 * call.input.mass)
        => \A e \in SchwarzschildExpected(call.input) :
              /\ HasKey(christoffel, e.key)
              /\ WithinTol(RSub(Get(christoffel, e.key), e.value))

\* a^2 > M^2 for Kerr, Q^2 > M^2 for Reissner-Nordstrom
NakedSingularity(req) ==
    \/ /\ req.endpoint = "kerr"
       /\ req.input.angular_momentum * req.input.angular_momentum
              > req.input.mass * req.input.mass
    \/ /\ req.endpoint = "reissner-nordstrom"
       /\ req.input.charge * req.input.charge > req.input.mass * req.input.mass

\* C7: a Kerr request with a^2 > M^2 and a Reissner-Nordstrom request with
\* Q^2 > M^2 are answered with 400; no tensor function is invoked and no
\* metric is built for them.
C7_NakedSingularityRejected ==
    (http_pc = "responded" /\ MetricInput(http_req.input) /\ NakedSingularity(http_req))
        => /\ http_resp.status = 400
           /\ calls = <<>>
           /\ metric = None

\* mass <= 0, radius <= 0 or theta outside [0, pi]
OutOfRange(input) ==
    \/ input.mass <= 0
    \/ input.radius <= 0
    \/ RLt(ThetaValue(input.theta), Zero)
    \/ RLt(Pi, ThetaValue(input.theta))

\* C8: a request with mass <= 0, radius <= 0 or theta outside [0, pi] is
\* answered with 422 before the endpoint body runs: the wrapper and the body
\* are never entered, nothing is computed and the cache is neither read nor
\* written for it.
C8_ValidationRejects ==
    (http_pc # "idle" /\ OutOfRange(http_req.input))
        => /\ http_pc \in {"validate", "responded"}
           /\ (http_pc = "responded" => http_resp.status = 422)
           /\ cache_ops = <<>>
           /\ stage = "idle"
           /\ calls = <<>>
           /\ metric = None

\* an out-of-range request has been answered 422
C8_Witness ==
    /\ http_pc = "responded"
    /\ OutOfRange(http_req.input)
    /\ http_resp.status = 422

\* r <= 2M, Delta <= 0 or f <= 0 (f <= 0 exactly when r^2 - 2Mr + Q^2 <= 0)
AtOrInsideSingularity(c) ==
    LET M == c.input.mass
        r == c.input.radius
    IN  CASE c.endpoint = "schwarzschild" -> r <= 2 * M
          [] c.endpoint = "kerr" ->
                r * r - 2 * M * r + c.input.angular_momentum * c.input.angular_momentum <= 0
          [] c.endpoint = "reissner-nordstrom" ->
                r * r - 2 * M * r + c.input.charge * c.input.charge <= 0

\* C9: at or inside a coordinate singularity building the metric fails: the
\* body does not return a successful response with metric components and
\* tensors.
C9_SingularityAborts ==
    (stage = "returned" /\ AtOrInsideSingularity(call)) => response.status # 200

\* C10: on every successful response the horizons are 2M for Schwarzschild,
\* M + sqrt(M^2 - a^2) for Kerr, and M +- sqrt(M^2 - Q^2), both present, for
\* Reissner-Nordstrom; so the extremal cases give M, and Q^2 < M^2 gives
\* event_horizon > cauchy_horizon.
C10_Horizons ==
    Succeeded =>
        LET M == Int2Rat(call.input.mass)
            M2 == call.input.mass * call.input.mass
            rplus == response.event_horizon
            rminus == response.cauchy_horizon
        IN  CASE call.endpoint = "schwarzschild" -> rplus = RScale(2, M)
              [] call.endpoint = "kerr" ->
                    LET a2 == call.input.angular_momentum * call.input.angular_momentum
                    IN  /\ RLe(M, rplus)
                        /\ RSq(RSub(rplus, M)) = Int2Rat(M2 - a2)
                        /\ (a2 = M2 => rplus = M)
              [] call.endpoint = "reissner-nordstrom" ->
                    LET Q2 == call.input.charge * call.input.charge
                    IN  /\ rplus # None
                        /\ rminus # None
                        /\ RLe(M, rplus)
                        /\ RSq(RSub(rplus, M)) = Int2Rat(M2 - Q2)
                        /\ rminus = RSub(RScale(2, M), rplus)
                        /\ (Q2 = M2 => rplus = M /\ rminus = M)
                        /\ (Q2 < M2 => RLt(rminus, rplus))

\* a charged, sub-extremal Reissner-Nordstrom call has succeeded
C10_Witness ==
    /\ Succeeded
    /\ call.endpoint = "reissner-nordstrom"
    /\ call.input.charge # 0
    /\ call.input.charge * call.input.charge < call.input.mass * call.input.mass

----------------------------------------------------------------------------
(* Error reporting *)

\* a field of the structured result, other than its status code, states the kind
Carries(resp, kind) == \E f \in DOMAIN resp \ {"status"} : resp[f] = kind

\* C11: every failure of a calculation reaches the caller as a structured
\* result that still carries its kind: the response to a call that raised
\* states the class of the exception.
C11_FailureKeepsKind ==
    (stage = "returned" /\ caught # None) => Carries(response, caught.class)


----------------------------------------------------------------------------
(* Caching *)

\* the positions of the log at which the client posted a request
Posted(request) == {i \in DOMAIN log : log[i].request = request}

CacheHitRequest == [endpoint |-> "schwarzschild", input |-> CacheHitData]
CacheMissRequest == [endpoint |-> "schwarzschild", input |-> CacheMissData]

\* C12: cache hit: the request of test_cache_hit succeeds, and a second
\* identical request is answered with an equal response without a call of
\* calculate_christoffel_symbols.
C12_CacheHit ==
    \A i \in Posted(CacheHitRequest) :
        /\ log[i].response.status = 200
        /\ \A j \in Posted(CacheHitRequest) :
            i < j => /\ log[j].response = log[i].response
                     /\ log[j].calls = <<>>

\* C13: cache miss: a request whose input differs from the earlier one is
\* not served from its entry: it succeeds, calculate_christoffel_symbols is
\* called exactly once, and its response differs from the earlier one.
C13_CacheMiss ==
    \A i \in Posted(CacheHitRequest) : \A j \in Posted(CacheMissRequest) :
        i < j => /\ log[j].response.status = 200
                 /\ Len(SelectSeq(log[j].calls, LAMBDA f : f = "calculate_christoffel_symbols")) = 1
                 /\ log[j].response # log[i].response

----------------------------------------------------------------------------
(* Determinism *)

\* between two invocations nothing of the earlier one is left
FreshLocals ==
    /\ metric = None /\ horizons = None /\ frame = None
    /\ christoffel = <<>> /\ riemann = <<>> /\ ricci = <<>>
    /\ ricci_scalar = None /\ caught = None /\ calls = <<>>

----------------------------------------------------------------------------
(* The dictionaries *)

\* |x| > 1e-10, as d / 1e10 < |n|
ExceedsTolerance(x) == ((x.d \div TolRoot) \div TolRoot) < Abs(x.n)

\* dict holds exactly the components of array above the tolerance
SparseOf(dict, array, indices, keys) ==
    /\ \A k \in DOMAIN dict : ExceedsTolerance(dict[k].value)
    /\ \A idx \in indices :
            IF ExceedsTolerance(array[idx])
            THEN HasKey(dict, keys[idx]) /\ Get(dict, keys[idx]) = array[idx]
            ELSE ~HasKey(dict, keys[idx])

\* C15: sparsification: each of the three functions returns a dictionary
\* whose values all exceed 1e-10 in magnitude, that holds every component of
\* the computed array above the tolerance under its key, and that omits the
\* others.
C15_Sparsification ==
    [][/\ stage = "loops" =>
            SparseOf(christoffel', ChristoffelArray(frame.g_inv, frame.d), Idx3, ChristoffelKeys)
       /\ (stage = "riemann" /\ stage' = "ricci") =>
            SparseOf(riemann', RiemannArray(Coords(call.endpoint, call.input)), Idx4, RiemannKeys)
       /\ stage = "ricci" =>
            SparseOf(ricci', RicciArray(ToArray(riemann, Idx4, RiemannIndices(riemann))), Idx2, RicciKeys)]_vars

\* all three dictionaries were returned, each with components kept and
\* components omitted, one of the kept ones negative
C15_Witness ==
    /\ stage = "scalar"
    /\ Len(christoffel) \in 1 .. 63
    /\ Len(riemann) \in 1 .. 255
    /\ Len(ricci) \in 1 .. 15
    /\ \E k \in DOMAIN christoffel : christoffel[k].value.n < 0

\* the position of an index tuple in the nested range(dim) loops
LoopRank(idx) ==
    CASE Len(idx) = 2 -> 4 * idx[1] + idx[2]
      [] Len(idx) = 3 -> 16 * idx[1] + 4 * idx[2] + idx[3]
      [] Len(idx) = 4 -> 64 * idx[1] + 16 * idx[2] + 4 * idx[3] + idx[4]

\* the index tuples of the items follow one another in lexicographic order
InLoopOrder(parsed) ==
    \A k \in 1 .. Len(parsed) - 1 : LoopRank(parsed[k]) < LoopRank(parsed[k + 1])

\* the array with the components at or below the tolerance set to 0
Sparsified(array) ==
    [idx \in DOMAIN array |-> IF ExceedsTolerance(array[idx]) THEN array[idx] ELSE Zero]

\* the keys of one family parse back to their tuples and are distinct
RoundTrip(indices, keys, parsed) ==
    /\ \A idx \in indices : parsed[idx] = idx
    /\ \A idx1, idx2 \in indices : keys[idx1] = keys[idx2] => idx1 = idx2

\* the three key formats over every index tuple
KeysRoundTrip ==
    /\ RoundTrip(Idx3, ChristoffelKeys, [idx \in Idx3 |-> ParseChristoffelKey(ChristoffelKey(idx))])
    /\ RoundTrip(Idx4, RiemannKeys, [idx \in Idx4 |-> ParseRiemannKey(RiemannKey(idx))])
    /\ RoundTrip(Idx2, RicciKeys, [idx \in Idx2 |-> ParseRicciKey(RicciKey(idx))])

----------------------------------------------------------------------------
(* Cache statistics *)

\* C17: the statistics returned by GET /cache/stats always contain the keys
\* memory_usage, total_keys, hits and misses.
C17_CacheStatsKeys ==
    (http_pc = "responded" /\ http_req.endpoint = "cache/stats")
        => /\ http_resp.status = 200
           /\ {"memory_usage", "total_keys", "hits", "misses"} \subseteq DOMAIN http_resp.body

----------------------------------------------------------------------------
(* Metric components *)

\* C18: near-horizon behaviour: the Schwarzschild request just outside the
\* horizon (r = 1.05 rs, theta = pi/2) succeeds with status 200 and returns
\* g_tt < -10 and g_rr > 10.
C18_NearHorizon ==
    (stage = "returned" /\ call = [endpoint |-> "schwarzschild", input |-> NearHorizonData])
        => /\ response.status = 200
           /\ RLt(response.metric_components.g_tt, Int2Rat(-10))
           /\ RLt(Int2Rat(10), response.metric_components.g_rr)

\* 0 < theta < pi
OffAxis == RLt(Zero, ThetaValue(call.input.theta)) /\ RLt(ThetaValue(call.input.theta), Pi)

\* a body has returned the metric at a point outside the outer horizon, off
\* the axis
SignatureCase == Succeeded /\ OutsideHorizon /\ OffAxis

\* a Kerr point inside the ergosurface: rho2 <= rs * r
InsideErgosurface ==
    /\ call.endpoint = "kerr"
    /\ RLe(response.metric_components.g_theta_theta,
           Int2Rat(2 * call.input.mass * call.input.radius))

\* the three spatial components are positive
SpatialSignature ==
    /\ RLt(Zero, response.metric_components.g_rr)
    /\ RLt(Zero, response.metric_components.g_theta_theta)
    /\ RLt(Zero, response.metric_components.g_phi_phi)

\* C19 as stated: for every accepted request with r outside the outer horizon
\* and 0 < theta < pi the returned components satisfy g_tt < 0, g_rr > 0,
\* g_theta_theta > 0 and g_phi_phi > 0.
C19_SignatureEverywhere ==
    SignatureCase => RLt(response.metric_components.g_tt, Zero) /\ SpatialSignature

\* C19, amended: outside the outer horizon and off the axis g_rr,
\* g_theta_theta and g_phi_phi are positive, and g_tt is negative except at
\* the Kerr points inside the ergosurface, where it is not.
C19_Signature ==
    SignatureCase
        => /\ SpatialSignature
           /\ RLt(response.metric_components.g_tt, Zero) <=> ~InsideErgosurface

\* a Kerr metric was returned between the outer horizon and the ergosurface
C19_Witness == SignatureCase /\ InsideErgosurface /\ RLt(Zero, response.metric_components.g_tt)

----------------------------------------------------------------------------
(* Login rate limit *)

\* C20: login rate limit: for each client IP the stored count never exceeds
\* 5, at most 5 calls of _check_rate_limit return True in one window, and a
\* call that returned False is answered 429.
C20_RateLimit ==
    /\ \A ip \in ClientIPs :
            /\ login_attempts[ip].count <= max_attempts
            /\ admitted[ip] <= max_attempts
    /\ \A w \in Workers :
            (workers[w].pc = "responded" /\ ~workers[w].allowed) => workers[w].status = 429

----------------------------------------------------------------------------
(* Tokens, users and calculations *)

\* C21: every token returned by create_access_token at time T expires at
\* T + expires_delta (30 minutes by default), on every call, and is
\* unexpired at the moment it is issued.
C21_TokenExpiry ==
    answer.op = "create_access_token"
        => /\ answer.value.exp = answer.at + ExpiresSeconds(answer.expires_delta)
           /\ answer.value.exp > answer.at

\* C22: a request bearing a valid token for a user whose record is inactive
\* or deleted when the request is answered is rejected with 400 "Inactive
\* user" or 404 "User not found".
C22_InactiveRejected ==
    /\ answer.op = "get_current_active_user"
    /\ answer.token.signed /\ answer.token.exp >= answer.at
    /\ ~answer.record.exists \/ ~answer.record.is_active
    => \/ answer.response = HTTPException(400, "Inactive user")
       \/ answer.response = HTTPException(404, "User not found")

\* C23: login_firebase and get_firebase_user do not take an invalid Firebase
\* token for verified and answer it with 401 (login_firebase with 429 when
\* the client is over the rate limit).
C23_InvalidFirebaseToken ==
    /\ answer.op = "login_firebase" /\ ~answer.firebase_token.valid
            => ~answer.verified /\ answer.response.status \in {401, 429}
    /\ (/\ answer.op = "get_firebase_user"
        /\ answer.authorization # None
        /\ ~answer.authorization.token.valid)
            => ~answer.verified /\ answer.response.status = 401

\* the tables of users the database can hold
UserTables ==
    [UserIds -> {NoRow}] \cup
    {rows \in [UserIds -> {NoRow} \cup {InitialUsers[id] : id \in UserIds}
                          \cup {[InitialUsers[id] EXCEPT !.is_active = FALSE] : id \in UserIds}] :
        \A id \in UserIds : rows[id].exists => rows[id].id = id}

\* C25: the response of /reset-password and the rate-limit table it leaves
\* are the same for every content of the users table, so they do not tell
\* whether an account with the e-mail address exists.
C25_ResetHidesAccounts ==
    answer.op = "reset_password"
        => \A rows \in UserTables :
              ResetPassword(answer.before, answer.at, answer.ip, answer.email, rows)
                = [attempts |-> answer.after, response |-> answer.response]

\* a reset was asked for the address of an account that exists, and was not
\* stopped by the rate limit
C25_Witness ==
    /\ answer.op = "reset_password"
    /\ answer.response.status # 429
    /\ \E id \in UserIds : answer.rows[id].exists /\ answer.rows[id].email = answer.email

\* C26: under concurrent calls of _check_rate_limit no interleaving admits
\* more than 5 requests of one client IP in a window or leaves its stored
\* count above 5.
C26_ConcurrentLimit ==
    \A ip \in ClientIPs :
        admitted[ip] <= max_attempts /\ login_attempts[ip].count <= max_attempts

----------------------------------------------------------------------------
(* The Riemann tensor and the Christoffel symbols *)

\* Christoffel dicts a caller can pass: no symbol, one symbol, every symbol
SomeChristoffels ==
    {<<>>,
     <<[key |-> ChristoffelKey(<<0, 0, 0>>), value |-> One]>>,
     [k \in 1 .. Len(Seq3) |-> [key |-> ChristoffelKey(Seq3[k]), value |-> Int2Rat(k)]]}

\* metric dicts a caller can pass
SomeMetrics == {<<>>, <<[key |-> "g_tt", value |-> RNeg(One)]>>}

\* the dicts of SomeMetrics and SomeChristoffels all give the components the
\* body has just got from calculate_riemann_tensor for its coords
SameRiemann ==
    \A m2 \in SomeMetrics : \A c2 \in SomeChristoffels :
        calculate_riemann_tensor(m2, c2, Coords(call.endpoint, call.input)) = Returned(riemann)

\* C29: the output of calculate_riemann_tensor depends on the Christoffel
\* symbols (or the metric) passed in: for the coords of a call there is another
\* christoffel or metric dict with which the function returns different
\* components.
C29_RiemannUsesChristoffel == RiemannReturned => ~SameRiemann

----------------------------------------------------------------------------
(* The decorator cache_response *)

\* C27: in one call of a function wrapped by cache_response the function is
\* executed at most once, whatever Redis answers, and the call returns the
\* cached value or the result of that execution.
C27_ExecutedOnce ==
    wrapped.pc = "done"
        => /\ wrapped.executions <= 1
           /\ wrapped.outcome.exc = "none"
           /\ IF wrapped.executions = 0
              THEN "cached" \in DOMAIN wrapped /\ wrapped.outcome.value = wrapped.cached
              ELSE wrapped.outcome.value = WrappedResult(wrapped.func, wrapped.kwargs)

----------------------------------------------------------------------------
(* Stored calculations *)

\* the caller may read, or may change, the calculation
MayRead(calculation, user) ==
    calculation.user_id = user.id \/ user.is_admin \/ calculation.is_public
MayChange(calculation, user) == calculation.user_id = user.id \/ user.is_admin

\* the request names a stored calculation
OnStored(ops) ==
    /\ answer.op \in ops
    /\ answer.before[answer.calculation_id].exists

\* C24: read_calculation returns a calculation only to its owner, to an
\* admin, or to anyone when it is public; update_calculation and
\* delete_calculation change or remove it only for its owner or an admin;
\* every other caller gets 403 and the stored record is unchanged.
C24_AccessControl ==
    /\ OnStored({"read_calculation"}) =>
          LET calculation == answer.before[answer.calculation_id]
          IN  IF MayRead(calculation, answer.current_user)
              THEN answer.response.status = 200 => answer.response.calculation = calculation
              ELSE answer.response = Forbidden /\ answer.after = answer.before
    /\ OnStored({"update_calculation", "delete_calculation"}) =>
          LET calculation == answer.before[answer.calculation_id]
          IN  MayChange(calculation, answer.current_user)
                \/ (answer.response = Forbidden /\ answer.after = answer.before)

\* the stored results are what perform_calculation gives for the stored type
\* and inputs
Computed(calculation) ==
    calculation.results = perform_calculation(calculation.type, calculation.inputs)

====
